---- MODULE Spec2Model ----
(***************************************************************************)
(* qobuz2red: the batch queue file (read_batch_links, mark_link_processed) *)
(* and the single-item / batch pipeline of main().                         *)
(*                                                                         *)
(* A text file is a sequence of characters over Alphabet.  "CR" and "LF"   *)
(* stand for the carriage return and the line feed, " " for a blank and    *)
(* "#" for the comment marker; "a" and "b" are the characters URLs are     *)
(* made of.                                                                *)
(***************************************************************************)
EXTENDS Integers, Sequences, FiniteSets, TLC

VARIABLES
    file,        \* bytes of the queue file (config batch_file) on disk
    linesep,     \* os.linesep of the platform the script runs on
    qpc,         \* queue harness: what was done last to the queue file
    file_prev,   \* queue harness: the bytes before the latest marking
    link,        \* queue harness: the argument of the latest marking
    links,       \* queue harness: result of the latest read_batch_links
    links_prev,  \* queue harness: result of the read before the latest marking
    repeat,      \* queue harness: the latest marking repeated the one before
    nmarks,      \* queue harness: number of markings done
    file0,       \* queue harness: the bytes the file had at the start
    mlines,      \* mark_link_processed in progress: its local `lines`
    written,     \* mark_link_processed in progress: lines written so far
    pc,          \* main(): where the process is
    mode,        \* main(): "single" or "batch" pass ("none" at source selection);
                 \* once the process has ended, how it ended
    passes,      \* number of passes of main()'s loop started so far
    watch_folder,\* config: whether a watch folder is configured
    fs,          \* the directories: download, destination, torrent output, watch
    item,        \* locals of the pass for the current album
    batch,       \* locals of the batch: batch_links, counters, and its history
    loc          \* a function run on its own: its locals and the disk it works on

qvars == <<file, linesep, qpc, file_prev, link, links, links_prev, repeat, nmarks,
           file0, mlines, written>>

\* the queue harness
qhist == <<qpc, file_prev, link, links, links_prev, repeat, nmarks, file0, mlines, written>>

\* the state of main()
pvars == <<pc, mode, passes, watch_folder, fs, item, batch>>

vars == <<qvars, pvars, loc>>

----------------------------------------------------------------------------
(* Bounds *)

MaxFileLen == 4
MaxMarks == 2

----------------------------------------------------------------------------
(* Characters and strings *)

Alphabet == {"a", "b", "#", " ", "CR", "LF"}

LF == <<"LF">>
CRLF == <<"CR", "LF">>

\* str.isspace() for the characters of Alphabet
IsSpace(c) == c \in {" ", "CR", "LF"}

RECURSIVE LStrip(_)
LStrip(s) ==
    IF s = <<>> THEN <<>>
    ELSE IF IsSpace(Head(s)) THEN LStrip(Tail(s)) ELSE s

RECURSIVE RStrip(_)
RStrip(s) ==
    IF s = <<>> THEN <<>>
    ELSE IF IsSpace(s[Len(s)]) THEN RStrip(SubSeq(s, 1, Len(s) - 1)) ELSE s

\* str.strip()
Strip(s) ==
    IF s = <<>> THEN s
    ELSE IF IsSpace(s[1]) THEN LStrip(RStrip(s))
    ELSE IF IsSpace(s[Len(s)]) THEN RStrip(SubSeq(s, 1, Len(s) - 1))
    ELSE s

\* str.startswith("#")
StartsWithHash(s) == s # <<>> /\ Head(s) = "#"

\* str.endswith("\n")
EndsWithNewline(s) == s # <<>> /\ s[Len(s)] = "LF"

\* open(..., "r") with the default newline=None: universal newlines, every
\* "\r\n" and every lone "\r" is given to the program as "\n".  (Bytes
\* without "\r" are read as they are.)
RECURSIVE UniversalRead(_)
UniversalRead(bytes) ==
    IF \A i \in 1..Len(bytes) : bytes[i] # "CR" THEN bytes
    ELSE IF Head(bytes) = "CR"
         THEN IF Len(bytes) > 1 /\ bytes[2] = "LF"
              THEN LF \o UniversalRead(SubSeq(bytes, 3, Len(bytes)))
              ELSE LF \o UniversalRead(Tail(bytes))
         ELSE <<Head(bytes)>> \o UniversalRead(Tail(bytes))

\* open(..., "w") with the default newline=None: every "\n" written is
\* stored as os.linesep.  (With "\n" as os.linesep the text is stored as
\* it is.)
RECURSIVE WriteTranslate(_, _)
WriteTranslate(text, sep) ==
    IF text = <<>> \/ sep = <<"LF">> THEN text
    ELSE IF Head(text) = "LF"
         THEN sep \o WriteTranslate(Tail(text), sep)
         ELSE <<Head(text)>> \o WriteTranslate(Tail(text), sep)

\* f.readlines() / "for line in f": the text cut after every "\n"; each line
\* keeps its "\n", the last line has none when the text does not end in one.
RECURSIVE SplitLines(_, _)
SplitLines(text, cur) ==
    IF text = <<>> THEN (IF cur = <<>> THEN <<>> ELSE <<cur>>)
    ELSE IF \A i \in 1..Len(text) : text[i] # "LF" THEN <<cur \o text>>
    ELSE LET n == CHOOSE i \in 1..Len(text) :
                      text[i] = "LF" /\ \A j \in 1..(i - 1) : text[j] # "LF"
         IN <<cur \o SubSeq(text, 1, n)>> \o SplitLines(SubSeq(text, n + 1, Len(text)), <<>>)

ReadLines(bytes) == SplitLines(UniversalRead(bytes), <<>>)

RECURSIVE Concat(_)
Concat(ls) == IF ls = <<>> THEN <<>> ELSE Head(ls) \o Concat(Tail(ls))

----------------------------------------------------------------------------
(* read_batch_links *)

\* read_batch_links without the test for the comment marker
RECURSIVE ActiveOfAnyLine(_)
ActiveOfAnyLine(ls) ==
    IF ls = <<>> THEN <<>>
    ELSE LET line == Strip(Head(ls))
         IN IF line # <<>>
            THEN <<line>> \o ActiveOfAnyLine(Tail(ls))
            ELSE ActiveOfAnyLine(Tail(ls))

\* line 46: if line and not line.startswith("#"): links.append(line)
Appended(line) == IF line # <<>> /\ ~StartsWithHash(line) THEN <<line>> ELSE <<>>

RECURSIVE ActiveOf(_)
ActiveOf(ls) ==
    IF ls = <<>> THEN <<>>
    ELSE Appended(Strip(Head(ls))) \o ActiveOf(Tail(ls))

read_batch_links(bytes) == ActiveOf(ReadLines(bytes))

----------------------------------------------------------------------------
(* mark_link_processed *)

\* a marking that also matches the entry when it is already disabled
MarkedLineAgain(line, l) ==
    IF Strip(line) = l \/ Strip(line) = <<"#", " ">> \o l
    THEN IF ~EndsWithNewline(line)
         THEN <<"#", " ">> \o line
         ELSE <<"#", " ">> \o RStrip(line) \o LF
    ELSE line

\* what the loop writes for one line
MarkedLine(line, l) ==
    IF Strip(line) = l
    THEN IF ~EndsWithNewline(line)
         THEN <<"#", " ">> \o line
         ELSE <<"#", " ">> \o RStrip(line) \o LF
    ELSE line

\* a marking that drops the matching line instead of disabling it
MarkLinesDropping(ls, l) ==
    LET Kept(line) == Strip(line) # l IN SelectSeq(ls, Kept)

MarkLines(ls, l) == [i \in 1..Len(ls) |-> MarkedLine(ls[i], l)]

\* the bytes of the file after mark_link_processed(batch_file, l)
mark_link_processed(bytes, l, sep) ==
    WriteTranslate(Concat(MarkLines(ReadLines(bytes), l)), sep)

----------------------------------------------------------------------------
(* main(): the data of a pass *)

\* more bounds
MaxQueue == 2
MaxPasses == 2

\* album URLs (the entries of the queue file are URLs)
URLs == {<<"a">>, <<"b">>}

\* None
NoName == <<>>

\* what is known of the answer of the API to the commit submission of an
\* entry: none (yet), the status "success", or another answer
NoAnswer == "none"
Answer(st) == IF st = <<"s", "u", "c", "c", "e", "s", "s">> THEN "success" ELSE "other"

\* the folder the acquisition tool creates for an album, named after the album
FolderOf(u) == <<"album", u>>

\* the "status" of the JSON result of the API, as characters; <<>> is a result
\* without the key
StSuccess == <<"s", "u", "c", "c", "e", "s", "s">>
StCapital == <<"S", "u", "c", "c", "e", "s", "s">>
StDryRun == <<"d", "r", "y", " ", "r", "u", "n", " ", "s", "u", "c", "c", "e", "s", "s">>
StFailure == <<"f", "a", "i", "l", "u", "r", "e">>
Statuses == {StSuccess, StCapital, StDryRun, StFailure, <<>>}

\* str.lower() on the characters that occur in the statuses
LowerChar(c) ==
    CASE c = "S" -> "s"
      [] c = "U" -> "u"
      [] c = "C" -> "c"
      [] c = "E" -> "e"
      [] OTHER -> c
Lower(s) == [i \in 1..Len(s) |-> LowerChar(s[i])]

\* sub in s
Contains(sub, s) ==
    \E i \in 0..(Len(s) - Len(sub)) : SubSeq(s, i + 1, i + Len(sub)) = sub

\* a dry run whose result is not looked at
DryRunAlwaysPasses(st) == TRUE

\* line 1285 negated: "success" in status.lower()
DryRunPassed(st) == Contains(StSuccess, Lower(st))

\* a commit whose result is not looked at
CommitAlwaysSucceeded(st) == TRUE

\* lines 1135 and 1304: upload_result.get("status") == "success"
CommitSucceeded(st) == st = StSuccess

\* the pipeline stages in the order the code of a pass calls them
StageOrder ==
    <<"Acquire", "Normalize", "Recompress", "Relocate", "BuildOrObtainTorrent",
      "ExtractMetadata", "DeriveFields", "DryRun", "Submit", "WatchFolderMove">>

\* a pass that builds the torrent before it relocates the album
StageAfterTorrentFirst(st) ==
    CASE st = "Acquire" -> "Normalize"
      [] st = "Normalize" -> "Recompress"
      [] st = "Recompress" -> "BuildOrObtainTorrent"
      [] st = "BuildOrObtainTorrent" -> "Relocate"
      [] st = "Relocate" -> "ExtractMetadata"
      [] st = "ExtractMetadata" -> "DeriveFields"

\* the statement sequence of lines 1050-1121 and 1193-1267: the call that
\* follows the call of stage st
StageAfter(st) ==
    CASE st = "Acquire" -> "Normalize"
      [] st = "Normalize" -> "Recompress"
      [] st = "Recompress" -> "Relocate"
      [] st = "Relocate" -> "BuildOrObtainTorrent"
      [] st = "BuildOrObtainTorrent" -> "ExtractMetadata"
      [] st = "ExtractMetadata" -> "DeriveFields"

\* a pass that downloads whatever was selected
FirstStageIsAcquire(use_existing) == "Acquire"

\* lines 1181 and 1191: "if not use_existing" around the download, the
\* normalization, the recompression and the move
FirstStage(use_existing) == IF use_existing THEN "BuildOrObtainTorrent" ELSE "Acquire"

\* the locals of a pass before its first statement
FreshItem(u) ==
    [url |-> u, use_existing |-> FALSE, album_folder |-> NoName,
     final_path |-> NoName, torrent_path |-> NoName, metadata |-> "unread",
     fields |-> FALSE, auto |-> FALSE, dry |-> "none", dry_status |-> <<>>,
     status |-> <<>>,
     commits |-> 0, confirmed |-> FALSE, stages |-> <<>>]

NoBatch ==
    [links |-> <<>>, idx |-> 0, successful |-> 0, failed |-> 0, auto |-> FALSE,
     source |-> "none", attempts |-> <<>>, answers |-> <<>>, succ_idx |-> {},
     failed_idx |-> {}, file_start |-> <<>>]

EmptyDirs == [dl |-> {}, dest |-> {}, dest_nested |-> {}, torrents |-> {}, watch |-> {}]

\* no function is run on its own
LIdle == [pc |-> "idle"]

\* main() not started
PIdle ==
    /\ pc = "select"
    /\ mode = "none"
    /\ passes = 0
    /\ watch_folder = FALSE
    /\ fs = EmptyDirs
    /\ item = FreshItem(NoName)
    /\ batch = NoBatch

----------------------------------------------------------------------------
(* The queue file on its own: any file content, any platform, and the two  *)
(* file operations applied to it in any order.                             *)

RECURSIVE SeqsUpTo(_, _)
SeqsUpTo(S, n) ==
    IF n = 0 THEN {<<>>}
    ELSE LET shorter == SeqsUpTo(S, n - 1)
         IN shorter \cup {Append(s, c) : s \in {t \in shorter : Len(t) = n - 1}, c \in S}

Files == SeqsUpTo(Alphabet, MaxFileLen)

QInit ==
    /\ file \in Files
    /\ linesep \in {LF, CRLF}
    /\ qpc = "fresh"
    /\ file_prev = file
    /\ link = <<>>
    /\ links = <<>>
    /\ links_prev = <<>>
    /\ repeat = FALSE
    /\ nmarks = 0
    /\ file0 = file
    /\ mlines = <<>>
    /\ written = 0
    /\ PIdle
    /\ loc = LIdle

QRead ==
    /\ qpc \in {"fresh", "marked"}
    /\ links' = read_batch_links(file)
    /\ qpc' = "read"
    /\ UNCHANGED <<file, linesep, file_prev, link, links_prev, repeat, nmarks,
                   file0, mlines, written, pvars, loc>>

Range(s) == {s[i] : i \in 1..Len(s)}

\* the callers pass an entry that read_batch_links returned or a parsed URL
QMark(l) ==
    /\ qpc = "read"
    /\ nmarks < MaxMarks
    /\ file_prev' = file
    /\ file' = mark_link_processed(file, l, linesep)
    /\ link' = l
    /\ links_prev' = links
    /\ repeat' = (nmarks > 0 /\ l = link)
    /\ nmarks' = nmarks + 1
    /\ qpc' = "marked"
    /\ UNCHANGED <<linesep, links, file0, mlines, written, pvars, loc>>

QNext ==
    \/ QRead
    \/ \E l \in Range(links) \cup {<<"a">>, <<"b">>} : QMark(l)

SpecQueue == QInit /\ [][QNext]_vars

----------------------------------------------------------------------------
(* mark_link_processed statement by statement, with the interrupt signal   *)
(* (KeyboardInterrupt, caught in main, which ends the process) arriving    *)
(* between any two statements.  `file` is what is on disk once the "with"  *)
(* block has closed the file, which is what an interrupted run leaves.     *)

\* lines 56-57: read all lines; line 59: open(batch_file, "w") truncates
MBegin(l) ==
    /\ qpc = "fresh"
    /\ file_prev' = file
    /\ link' = l
    /\ mlines' = ReadLines(file)
    /\ written' = 0
    /\ file' = <<>>
    /\ qpc' = "writing"
    /\ UNCHANGED <<linesep, links, links_prev, repeat, nmarks, file0, pvars, loc>>

\* lines 60-64: one iteration of the loop
MWrite ==
    /\ qpc = "writing"
    /\ written < Len(mlines)
    /\ file' = file \o WriteTranslate(MarkedLine(mlines[written + 1], link), linesep)
    /\ written' = written + 1
    /\ UNCHANGED <<linesep, qpc, file_prev, link, links, links_prev, repeat, nmarks,
                   file0, mlines, pvars, loc>>

\* the loop is over and the function returns
MEnd ==
    /\ qpc = "writing"
    /\ written = Len(mlines)
    /\ qpc' = "marked"
    /\ nmarks' = nmarks + 1
    /\ UNCHANGED <<file, linesep, file_prev, link, links, links_prev, repeat,
                   file0, mlines, written, pvars, loc>>

\* lines 1340-1342: KeyboardInterrupt ends the process
MInterrupt ==
    /\ qpc = "writing"
    /\ qpc' = "interrupted"
    /\ UNCHANGED <<file, linesep, file_prev, link, links, links_prev, repeat, nmarks,
                   file0, mlines, written, pvars, loc>>

MNext ==
    \/ \E l \in Range(read_batch_links(file)) \cup {<<"a">>} : MBegin(l)
    \/ MWrite
    \/ MEnd
    \/ MInterrupt

SpecMark == QInit /\ [][MNext]_vars

----------------------------------------------------------------------------
(* main(): the called functions, as the outcomes they can have *)

\* the queue files main() starts with: one URL per line.  (A queue file that
\* does not exist reads as an empty one.)
QueueFiles ==
    {Concat([i \in 1..Len(q) |-> q[i] \o LF]) : q \in SeqsUpTo(URLs, MaxQueue)}

\* download_album(url, download_dir): the tool fails (CalledProcessError), or
\* leaves no new folder (None), or creates the album's folder
DownloadOutcomes(u, dl) ==
    {[result |-> "error", dl |-> dl, folder |-> NoName],
     [result |-> "none", dl |-> dl, folder |-> NoName]}
    \cup (IF FolderOf(u) \in dl THEN {}
          ELSE {[result |-> "new", dl |-> dl \cup {FolderOf(u)}, folder |-> FolderOf(u)]})

\* flatten_nested_album_folder(album_folder) as main() sees it: an OSError, or
\* the album's folder, which stands for the album under whatever name the
\* flattening gave it
FlattenOutcomes(f, dl) ==
    {[result |-> "error", dl |-> dl, folder |-> f],
     [result |-> "ok", dl |-> dl, folder |-> f]}

\* move_album(album_folder, destination_dir): shutil.move into the
\* destination; onto an existing folder of that name it moves the album
\* inside that folder, and raises when that place is taken too
MoveOutcomes(f, dirs) ==
    {[result |-> "error", fs |-> dirs]}
    \cup (IF f \notin dirs.dest
          THEN {[result |-> "ok", fs |-> [dirs EXCEPT !.dl = @ \ {f}, !.dest = @ \cup {f}]]}
          ELSE IF f \notin dirs.dest_nested
          THEN {[result |-> "ok",
                 fs |-> [dirs EXCEPT !.dl = @ \ {f}, !.dest_nested = @ \cup {f}]]}
          ELSE {})

\* create_torrent(final_path, announce_url, torrent_output_dir)
CreateTorrentOutcomes(f, dirs) ==
    {[result |-> "error", fs |-> dirs],
     [result |-> "ok", fs |-> [dirs EXCEPT !.torrents = @ \cup {f}]]}

\* lines 1145-1151 and 1315-1321: shutil.move of the torrent to the watch folder
WatchMoveOutcomes(t, dirs) ==
    {[result |-> "error", fs |-> dirs],
     [result |-> "ok", fs |-> [dirs EXCEPT !.torrents = @ \ {t}, !.watch = @ \cup {t}]]}

\* upload_torrent(torrent_path, ...): open(torrent_path) fails when the file
\* is not there; requests.post raises, or the API answers with a status
UploadOutcomes(t, dirs) ==
    IF t \notin dirs.torrents THEN {[result |-> "error", status |-> <<>>]}
    ELSE {[result |-> "error", status |-> <<>>]}
         \cup {[result |-> "answer", status |-> st] : st \in Statuses}

Staged(it, st) == [it EXCEPT !.stages = Append(@, st)]

\* a move to the watch folder, configured or not
MoveToWatchAlways(configured) == TRUE

\* lines 1145 and 1315: if watch_folder
MoveToWatch(configured) == configured

----------------------------------------------------------------------------
(* main(): source selection, lines 937-1023 *)

\* (the platform's line endings are the subject of SpecQueue)
Init ==
    /\ file \in QueueFiles
    /\ linesep = LF
    /\ qpc = "fresh"
    /\ file_prev = file
    /\ link = <<>>
    /\ links = <<>>
    /\ links_prev = <<>>
    /\ repeat = FALSE
    /\ nmarks = 0
    /\ file0 = file
    /\ mlines = <<>>
    /\ written = 0
    /\ pc = "select"
    /\ mode = "none"
    /\ passes = 0
    /\ watch_folder \in BOOLEAN
    /\ fs = EmptyDirs
    /\ item = FreshItem(NoName)
    /\ batch = NoBatch
    /\ loc = LIdle

\* lines 1026-1043: the batch starts with its first entry
StartBatch(ls, src, a) ==
    /\ mode' = "batch"
    /\ batch' = [NoBatch EXCEPT !.links = ls, !.idx = 1, !.auto = a, !.source = src,
                                !.attempts = <<1>>, !.file_start = file,
                                !.answers = [i \in 1..Len(ls) |-> NoAnswer]]
    /\ item' = FreshItem(ls[1])
    /\ pc' = "Acquire"

\* "continue": back to the top of main()'s loop, where the locals of the
\* pass are dead (each is assigned again before it is read)
BackToSelect ==
    /\ pc' = "select"
    /\ mode' = "none"
    /\ item' = FreshItem(NoName)
    /\ batch' = NoBatch

\* sys.exit, or "break" out of main()'s loop: the process and its locals are
\* gone, the files stay
Exit(how) ==
    /\ pc' = "exited"
    /\ mode' = how
    /\ item' = FreshItem(NoName)
    /\ batch' = NoBatch

\* lines 985-988 and 1020-1021: [B] with entries in the queue file
SelectBatch ==
    /\ pc = "select"
    /\ passes < MaxPasses
    /\ read_batch_links(file) # <<>>
    /\ passes' = passes + 1
    /\ \E a \in BOOLEAN : StartBatch(read_batch_links(file), "file", a)
    /\ UNCHANGED <<file, linesep, qhist, loc, watch_folder, fs>>

\* lines 989-991: [B] with an empty queue while albums are listed
SelectBatchEmpty ==
    /\ pc = "select"
    /\ passes < MaxPasses
    /\ read_batch_links(file) = <<>>
    /\ fs.dest # {}
    /\ passes' = passes + 1
    /\ BackToSelect
    /\ UNCHANGED <<file, linesep, qhist, loc, watch_folder, fs>>

\* the text written without the line break in front
SavedTextUnbroken(ls) ==
    <<"#", " ", "Parsed from batch parse file">> \o LF \o Concat([i \in 1..Len(ls) |-> ls[i] \o LF])

\* the text handle_parse_qobuz_page appends on [S], lines 475-478
SavedText(ls) ==
    LF \o <<"#", " ", "Parsed from batch parse file">> \o LF
       \o Concat([i \in 1..Len(ls) |-> ls[i] \o LF])

\* the lists of album links a parse can give: no link twice (lines 434-445)
ParsedLists == {ls \in SeqsUpTo(URLs, MaxQueue) : \A i, j \in 1..Len(ls) : ls[i] = ls[j] => i = j}

\* lines 978-983 and 1016-1019: [P]; handle_parse_qobuz_page returns the
\* links to process now, or nothing after no link, [C]ancel or [S]ave
SelectParse ==
    /\ pc = "select"
    /\ passes < MaxPasses
    /\ passes' = passes + 1
    /\ \E ls \in ParsedLists, choice \in {"", "S", "C"} :
         IF ls = <<>> \/ choice = "C"
         THEN /\ BackToSelect
              /\ UNCHANGED file
         ELSE IF choice = "S"
         THEN /\ Len(read_batch_links(file)) + Len(ls) <= MaxQueue
              /\ file' = file \o WriteTranslate(SavedText(ls), linesep)
              /\ BackToSelect
         ELSE /\ file' = file
              /\ \E a \in BOOLEAN : StartBatch(ls, "page", a)
    /\ UNCHANGED <<linesep, qhist, loc, watch_folder, fs>>

\* the numbers a user may type at the selection prompt
Selections == -1..(Cardinality(fs.dest) + 1)

\* recent_albums[album_index] of a list of n albums does not raise IndexError
IndexExists(i, n) == -n <= i /\ i <= n - 1

\* at most this many albums are listed (line 953)
RecentMax == 10

Min(x, y) == IF x <= y THEN x ELSE y

\* lines 992-998 and 1189: a number that indexes the list of recent albums;
\* the list is in modification-time order, so any album can be at any place.
\* The URL, asked for the description only, is given or left empty.
SelectExisting ==
    /\ pc = "select"
    /\ passes < MaxPasses
    /\ fs.dest # {}
    /\ passes' = passes + 1
    /\ \E k \in Selections, album \in fs.dest, u \in {<<"a">>, NoName} :
         /\ IndexExists(k - 1, Min(Cardinality(fs.dest), RecentMax))
         /\ item' = [FreshItem(u) EXCEPT !.use_existing = TRUE, !.final_path = album]
    /\ mode' = "single"
    /\ pc' = FirstStage(TRUE)
    /\ UNCHANGED <<file, linesep, qhist, loc, watch_folder, fs, batch>>

\* lines 999-1004, 1022-1023 and 1181-1186: Enter, or a selection that is no
\* number or indexes no album: a new download; an empty URL goes back
SelectDownload ==
    /\ pc = "select"
    /\ passes < MaxPasses
    /\ passes' = passes + 1
    /\ \E u \in URLs \cup {NoName} :
         IF u = NoName
         THEN BackToSelect
         ELSE /\ mode' = "single"
              /\ item' = FreshItem(u)
              /\ pc' = FirstStage(FALSE)
              /\ UNCHANGED batch
    /\ UNCHANGED <<file, linesep, qhist, loc, watch_folder, fs>>

----------------------------------------------------------------------------
(* main(): the batch loop, lines 1043-1179 *)

\* the loop goes to its next entry, or to the summary after the last one
BatchAdvance(b) ==
    IF b.idx < Len(b.links)
    THEN /\ batch' = [b EXCEPT !.idx = @ + 1, !.attempts = Append(@, b.idx + 1)]
         /\ item' = FreshItem(b.links[b.idx + 1])
         /\ pc' = "Acquire"
    ELSE /\ batch' = b
         /\ item' = FreshItem(NoName)
         /\ pc' = "summary"

\* a batch whose first failure ends the loop
BatchFailedStops(b) ==
    /\ batch' = [b EXCEPT !.failed = @ + 1, !.failed_idx = @ \cup {b.idx}]
    /\ item' = FreshItem(NoName)
    /\ pc' = "summary"

\* a batch that goes on after a failure without counting it
BatchFailedUncounted(b) == BatchAdvance(b)

\* lines 1052-1055, 1127-1129, 1156-1158 and 1160-1163: count the entry as
\* failed and continue with the next one
BatchFailed(b) ==
    BatchAdvance([b EXCEPT !.failed = @ + 1, !.failed_idx = @ \cup {b.idx}])

\* the same, for an entry that has no answer of the API
BatchFail(it) == BatchFailed(batch)

\* lines 1050-1055
BatchAcquire ==
    /\ pc = "Acquire" /\ mode = "batch"
    /\ \E o \in DownloadOutcomes(item.url, fs.dl) :
         /\ fs' = [fs EXCEPT !.dl = o.dl]
         /\ IF o.result = "new"
            THEN /\ item' = [Staged(item, "Acquire") EXCEPT !.album_folder = o.folder]
                 /\ pc' = StageAfter("Acquire")
                 /\ UNCHANGED batch
            ELSE BatchFail(Staged(item, "Acquire"))
    /\ UNCHANGED <<file, linesep, qhist, loc, mode, passes, watch_folder>>

\* line 1058
BatchNormalize ==
    /\ pc = "Normalize" /\ mode = "batch"
    /\ \E o \in FlattenOutcomes(item.album_folder, fs.dl) :
         /\ fs' = [fs EXCEPT !.dl = o.dl]
         /\ IF o.result = "ok"
            THEN /\ item' = [Staged(item, "Normalize") EXCEPT !.album_folder = o.folder]
                 /\ pc' = StageAfter("Normalize")
                 /\ UNCHANGED batch
            ELSE BatchFail(Staged(item, "Normalize"))
    /\ UNCHANGED <<file, linesep, qhist, loc, mode, passes, watch_folder>>

\* line 1064: recompress_flac_files; flac may exit non-zero
BatchRecompress ==
    /\ pc = "Recompress" /\ mode = "batch"
    /\ \E ok \in BOOLEAN :
         IF ok
         THEN /\ item' = Staged(item, "Recompress")
              /\ pc' = StageAfter("Recompress")
              /\ UNCHANGED batch
         ELSE BatchFail(Staged(item, "Recompress"))
    /\ UNCHANGED <<file, linesep, qhist, loc, mode, passes, watch_folder, fs>>

\* line 1069
BatchRelocate ==
    /\ pc = "Relocate" /\ mode = "batch"
    /\ \E o \in MoveOutcomes(item.album_folder, fs) :
         /\ fs' = o.fs
         /\ IF o.result = "ok"
            THEN /\ item' = [Staged(item, "Relocate") EXCEPT !.final_path = item.album_folder]
                 /\ pc' = StageAfter("Relocate")
                 /\ UNCHANGED batch
            ELSE BatchFail(Staged(item, "Relocate"))
    /\ UNCHANGED <<file, linesep, qhist, loc, mode, passes, watch_folder>>

\* lines 1073-1082: an existing torrent of that name is used as it is
BatchTorrent ==
    /\ pc = "BuildOrObtainTorrent" /\ mode = "batch"
    /\ IF item.final_path \in fs.torrents
       THEN /\ item' = [Staged(item, "BuildOrObtainTorrent") EXCEPT
                            !.torrent_path = item.final_path]
            /\ pc' = StageAfter("BuildOrObtainTorrent")
            /\ UNCHANGED <<fs, batch>>
       ELSE \E o \in CreateTorrentOutcomes(item.final_path, fs) :
              /\ fs' = o.fs
              /\ IF o.result = "ok"
                 THEN /\ item' = [Staged(item, "BuildOrObtainTorrent") EXCEPT
                                      !.torrent_path = item.final_path]
                      /\ pc' = StageAfter("BuildOrObtainTorrent")
                      /\ UNCHANGED batch
                 ELSE BatchFail(Staged(item, "BuildOrObtainTorrent"))
    /\ UNCHANGED <<file, linesep, qhist, loc, mode, passes, watch_folder>>

\* lines 1086-1098: read_flac_metadata raises, or gives the tags, or None,
\* which is replaced by the defaults
BatchMetadata ==
    /\ pc = "ExtractMetadata" /\ mode = "batch"
    /\ \E m \in {"error", "present", "absent"} :
         IF m # "error"
         THEN /\ item' = [Staged(item, "ExtractMetadata") EXCEPT !.metadata = m]
              /\ pc' = StageAfter("ExtractMetadata")
              /\ UNCHANGED batch
         ELSE BatchFail(Staged(item, "ExtractMetadata"))
    /\ UNCHANGED <<file, linesep, qhist, loc, mode, passes, watch_folder, fs>>

\* lines 1101-1129: the fields, then "Proceed with upload?" unless automatic;
\* the metadata is not read after the fields were made from it
BatchDeriveFields ==
    /\ pc = "DeriveFields" /\ mode = "batch"
    /\ \E proceed \in BOOLEAN :
         IF batch.auto \/ proceed
         THEN /\ item' = [Staged(item, "DeriveFields") EXCEPT !.fields = TRUE,
                                                             !.metadata = "used",
                                                             !.confirmed = ~batch.auto]
              /\ pc' = "Submit"
              /\ UNCHANGED batch
         ELSE BatchFail([Staged(item, "DeriveFields") EXCEPT !.fields = TRUE])
    /\ UNCHANGED <<file, linesep, qhist, loc, mode, passes, watch_folder, fs>>

\* lines 1133-1158: the commit submission and the test of its status
BatchSubmit ==
    /\ pc = "Submit" /\ mode = "batch"
    /\ \E o \in UploadOutcomes(item.torrent_path, fs) :
         IF o.result = "error"
         THEN BatchFail(item)
         ELSE LET it == [Staged(item, "Submit") EXCEPT !.status = o.status,
                                                       !.commits = @ + 1]
                  b == [batch EXCEPT !.answers[batch.idx] = Answer(o.status)]
              IN IF CommitSucceeded(o.status)
                 THEN /\ item' = it
                      /\ batch' = b
                      /\ pc' = IF MoveToWatch(watch_folder) THEN "WatchFolderMove" ELSE "mark"
                 ELSE BatchFailed(b)
    /\ UNCHANGED <<file, linesep, qhist, loc, mode, passes, watch_folder, fs>>

\* lines 1145-1151
BatchWatchMove ==
    /\ pc = "WatchFolderMove" /\ mode = "batch"
    /\ \E o \in WatchMoveOutcomes(item.torrent_path, fs) :
         /\ fs' = o.fs
         /\ IF o.result = "ok"
            THEN /\ item' = Staged(item, "WatchFolderMove")
                 /\ pc' = "mark"
                 /\ UNCHANGED batch
            ELSE BatchFail(Staged(item, "WatchFolderMove"))
    /\ UNCHANGED <<file, linesep, qhist, loc, mode, passes, watch_folder>>

\* lines 1154-1155
BatchMark ==
    /\ pc = "mark" /\ mode = "batch"
    /\ file' = mark_link_processed(file, item.url, linesep)
    /\ BatchAdvance([batch EXCEPT !.successful = @ + 1, !.succ_idx = @ \cup {batch.idx}])
    /\ UNCHANGED <<linesep, qhist, loc, mode, passes, watch_folder, fs>>

\* lines 1165-1179: the summary, then "Process another batch or album?"
BatchSummary ==
    /\ pc = "summary" /\ mode = "batch"
    /\ \E again \in BOOLEAN :
         IF again THEN BackToSelect ELSE Exit("declined")
    /\ UNCHANGED <<file, linesep, qhist, loc, passes, watch_folder, fs>>

----------------------------------------------------------------------------
(* main(): the single-item pass, lines 1181-1346 *)

\* a pass whose exception ends the process
SingleFailIsFatal == Exit("crashed")

\* lines 1336-1339 and 1343-1346: an exception ends the pass; "Try another
\* album?" goes back to the selection or ends the process
SingleFail ==
    \E again \in BOOLEAN : IF again THEN BackToSelect ELSE Exit("declined")

\* lines 1192-1197
SingleAcquire ==
    /\ pc = "Acquire" /\ mode = "single"
    /\ \E o \in DownloadOutcomes(item.url, fs.dl) :
         /\ fs' = [fs EXCEPT !.dl = o.dl]
         /\ IF o.result = "new"
            THEN /\ item' = [Staged(item, "Acquire") EXCEPT !.album_folder = o.folder]
                 /\ pc' = StageAfter("Acquire")
                 /\ UNCHANGED <<mode, batch>>
            ELSE IF o.result = "none" THEN BackToSelect
            ELSE SingleFail
    /\ UNCHANGED <<file, linesep, qhist, loc, passes, watch_folder>>

\* line 1200
SingleNormalize ==
    /\ pc = "Normalize" /\ mode = "single"
    /\ \E o \in FlattenOutcomes(item.album_folder, fs.dl) :
         /\ fs' = [fs EXCEPT !.dl = o.dl]
         /\ IF o.result = "ok"
            THEN /\ item' = [Staged(item, "Normalize") EXCEPT !.album_folder = o.folder]
                 /\ pc' = StageAfter("Normalize")
                 /\ UNCHANGED <<mode, batch>>
            ELSE SingleFail
    /\ UNCHANGED <<file, linesep, qhist, loc, passes, watch_folder>>

\* line 1205
SingleRecompress ==
    /\ pc = "Recompress" /\ mode = "single"
    /\ \E ok \in BOOLEAN :
         IF ok
         THEN /\ item' = Staged(item, "Recompress")
              /\ pc' = StageAfter("Recompress")
              /\ UNCHANGED <<mode, batch>>
         ELSE SingleFail
    /\ UNCHANGED <<file, linesep, qhist, loc, passes, watch_folder, fs>>

\* line 1209
SingleRelocate ==
    /\ pc = "Relocate" /\ mode = "single"
    /\ \E o \in MoveOutcomes(item.album_folder, fs) :
         /\ fs' = o.fs
         /\ IF o.result = "ok"
            THEN /\ item' = [Staged(item, "Relocate") EXCEPT !.final_path = item.album_folder]
                 /\ pc' = StageAfter("Relocate")
                 /\ UNCHANGED <<mode, batch>>
            ELSE SingleFail
    /\ UNCHANGED <<file, linesep, qhist, loc, passes, watch_folder>>

\* lines 1213-1229: an existing torrent of that name is used when the user
\* says so, else the torrent is created
SingleTorrent ==
    /\ pc = "BuildOrObtainTorrent" /\ mode = "single"
    /\ \E use_existing_torrent \in BOOLEAN :
         IF item.final_path \in fs.torrents /\ use_existing_torrent
         THEN /\ item' = [Staged(item, "BuildOrObtainTorrent") EXCEPT
                              !.torrent_path = item.final_path]
              /\ pc' = StageAfter("BuildOrObtainTorrent")
              /\ UNCHANGED <<fs, mode, batch>>
         ELSE \E o \in CreateTorrentOutcomes(item.final_path, fs) :
                /\ fs' = o.fs
                /\ IF o.result = "ok"
                   THEN /\ item' = [Staged(item, "BuildOrObtainTorrent") EXCEPT
                                        !.torrent_path = item.final_path]
                        /\ pc' = StageAfter("BuildOrObtainTorrent")
                        /\ UNCHANGED <<mode, batch>>
                   ELSE SingleFail
    /\ UNCHANGED <<file, linesep, qhist, loc, passes, watch_folder>>

\* lines 1233-1245
SingleMetadata ==
    /\ pc = "ExtractMetadata" /\ mode = "single"
    /\ \E m \in {"error", "present", "absent"} :
         IF m # "error"
         THEN /\ item' = [Staged(item, "ExtractMetadata") EXCEPT !.metadata = m]
              /\ pc' = StageAfter("ExtractMetadata")
              /\ UNCHANGED <<mode, batch>>
         ELSE SingleFail
    /\ UNCHANGED <<file, linesep, qhist, loc, passes, watch_folder, fs>>

\* lines 1253-1267: the choice ([A] is automatic) and the fields
SingleDeriveFields ==
    /\ pc = "DeriveFields" /\ mode = "single"
    /\ \E auto_upload \in BOOLEAN :
         /\ item' = [Staged(item, "DeriveFields") EXCEPT !.fields = TRUE,
                                                        !.metadata = "used",
                                                        !.auto = auto_upload]
         /\ pc' = IF auto_upload THEN "Submit" ELSE "DryRun"
    /\ UNCHANGED <<file, linesep, qhist, loc, mode, passes, watch_folder, fs, batch>>

\* lines 1270-1281: "Do dry run first?" and the dry-run submission
SingleDryRun ==
    /\ pc = "DryRun" /\ mode = "single"
    /\ \E do_dry_run \in BOOLEAN :
         IF ~do_dry_run
         THEN /\ pc' = "confirm"
              /\ UNCHANGED <<item, mode, batch>>
         ELSE \E o \in UploadOutcomes(item.torrent_path, fs) :
                IF o.result = "error"
                THEN SingleFail
                ELSE /\ item' = [Staged(item, "DryRun") EXCEPT !.dry = "done",
                                                               !.dry_status = o.status]
                     /\ pc' = "DryRunCheck"
                     /\ UNCHANGED <<mode, batch>>
    /\ UNCHANGED <<file, linesep, qhist, loc, passes, watch_folder, fs>>

\* lines 1283-1289: a dry run that did not succeed ends the pass; the status
\* is not read after this test
SingleDryRunCheck ==
    /\ pc = "DryRunCheck" /\ mode = "single"
    /\ IF DryRunPassed(item.dry_status)
       THEN /\ pc' = "confirm"
            /\ item' = [item EXCEPT !.dry = "passed", !.dry_status = <<>>]
            /\ UNCHANGED <<mode, batch>>
       ELSE BackToSelect
    /\ UNCHANGED <<file, linesep, qhist, loc, passes, watch_folder, fs>>

\* a pass that goes on to the commit submission whatever the answer
SingleConfirmNotAwaited ==
    /\ pc = "confirm" /\ mode = "single"
    /\ \E proceed \in BOOLEAN :
         /\ pc' = "Submit"
         /\ item' = [item EXCEPT !.confirmed = proceed]
    /\ UNCHANGED <<file, linesep, qhist, loc, mode, passes, watch_folder, fs, batch>>

\* lines 1294-1298 and 1325-1326: "Proceed with actual upload?"
SingleConfirm ==
    /\ pc = "confirm" /\ mode = "single"
    /\ \E proceed \in BOOLEAN :
         /\ pc' = IF proceed THEN "Submit" ELSE "done"
         /\ item' = [item EXCEPT !.confirmed = proceed]
    /\ UNCHANGED <<file, linesep, qhist, loc, mode, passes, watch_folder, fs, batch>>

\* lines 1300-1324: the commit submission and the test of its status
SingleSubmit ==
    /\ pc = "Submit" /\ mode = "single"
    /\ \E o \in UploadOutcomes(item.torrent_path, fs) :
         IF o.result = "error"
         THEN SingleFail
         ELSE IF CommitSucceeded(o.status)
         THEN /\ item' = [Staged(item, "Submit") EXCEPT !.status = o.status,
                                                        !.commits = @ + 1]
              /\ pc' = IF MoveToWatch(watch_folder) THEN "WatchFolderMove" ELSE "done"
              /\ UNCHANGED <<mode, batch>>
         ELSE BackToSelect
    /\ UNCHANGED <<file, linesep, qhist, loc, passes, watch_folder, fs>>

\* lines 1315-1321
SingleWatchMove ==
    /\ pc = "WatchFolderMove" /\ mode = "single"
    /\ \E o \in WatchMoveOutcomes(item.torrent_path, fs) :
         /\ fs' = o.fs
         /\ IF o.result = "ok"
            THEN /\ item' = Staged(item, "WatchFolderMove")
                 /\ pc' = "done"
                 /\ UNCHANGED <<mode, batch>>
            ELSE SingleFail
    /\ UNCHANGED <<file, linesep, qhist, loc, passes, watch_folder>>

\* lines 1328-1334: "Process another album?"
SingleDone ==
    /\ pc = "done" /\ mode = "single"
    /\ \E again \in BOOLEAN : IF again THEN BackToSelect ELSE Exit("declined")
    /\ UNCHANGED <<file, linesep, qhist, loc, passes, watch_folder, fs>>

\* lines 1340-1342: the interrupt signal, between any two steps
Interrupt ==
    /\ pc # "exited"
    /\ Exit("interrupted")
    /\ UNCHANGED <<file, linesep, qhist, loc, passes, watch_folder, fs>>

Next ==
    \/ SelectBatch
    \/ SelectBatchEmpty
    \/ SelectParse
    \/ SelectExisting
    \/ SelectDownload
    \/ BatchAcquire
    \/ BatchNormalize
    \/ BatchRecompress
    \/ BatchRelocate
    \/ BatchTorrent
    \/ BatchMetadata
    \/ BatchDeriveFields
    \/ BatchSubmit
    \/ BatchWatchMove
    \/ BatchMark
    \/ BatchSummary
    \/ SingleAcquire
    \/ SingleNormalize
    \/ SingleRecompress
    \/ SingleRelocate
    \/ SingleTorrent
    \/ SingleMetadata
    \/ SingleDeriveFields
    \/ SingleDryRun
    \/ SingleDryRunCheck
    \/ SingleConfirm
    \/ SingleSubmit
    \/ SingleWatchMove
    \/ SingleDone
    \/ Interrupt

Spec == Init /\ [][Next]_vars

----------------------------------------------------------------------------
(* The three tests of a submission result's status, each on its own, on    *)
(* any status the API may answer with.                                     *)

\* str.upper() on the letters of "success"
UpperChar(c) ==
    CASE c = "s" -> "S"
      [] c = "u" -> "U"
      [] c = "c" -> "C"
      [] c = "e" -> "E"
      [] OTHER -> c

\* "success" in every mix of upper and lower case
CaseVariants ==
    {[i \in 1..Len(StSuccess) |-> IF i \in up THEN UpperChar(StSuccess[i]) ELSE StSuccess[i]] :
        up \in SUBSET (1..Len(StSuccess))}

\* the statuses: a word, alone or after "dry run " or before "!"; the word is
\* "success" in some case, "failure", or "succes"; and no status at all
StatusInputs ==
    {pre \o w \o post :
        pre \in {<<>>, <<"d", "r", "y", " ", "r", "u", "n", " ">>},
        w \in CaseVariants \cup {StFailure, <<"s", "u", "c", "c", "e", "s">>},
        post \in {<<>>, <<"!">>}}
    \cup {<<>>}

\* no queue file, main() not started
QIdle ==
    /\ file = <<>>
    /\ linesep = LF
    /\ qpc = "fresh"
    /\ file_prev = <<>>
    /\ link = <<>>
    /\ links = <<>>
    /\ links_prev = <<>>
    /\ repeat = FALSE
    /\ nmarks = 0
    /\ file0 = <<>>
    /\ mlines = <<>>
    /\ written = 0
    /\ PIdle

JInit ==
    /\ QIdle
    /\ \E st \in StatusInputs :
         loc = [pc |-> "answered", status |-> st, test |-> "none", accepted |-> FALSE]

\* lines 1284-1285: the test of the dry run in the single-item flow
JDryRunCheck ==
    /\ loc.pc = "answered"
    /\ loc' = [loc EXCEPT !.pc = "tested", !.test = "dry run",
                          !.accepted = DryRunPassed(loc.status)]
    /\ UNCHANGED <<qvars, pvars>>

\* line 1304: the test of the commit submission in the single-item flow
JSingleCommitCheck ==
    /\ loc.pc = "answered"
    /\ loc' = [loc EXCEPT !.pc = "tested", !.test = "single commit",
                          !.accepted = CommitSucceeded(loc.status)]
    /\ UNCHANGED <<qvars, pvars>>

\* line 1135: the test of the commit submission in the batch flow
JBatchCommitCheck ==
    /\ loc.pc = "answered"
    /\ loc' = [loc EXCEPT !.pc = "tested", !.test = "batch commit",
                          !.accepted = CommitSucceeded(loc.status)]
    /\ UNCHANGED <<qvars, pvars>>

JNext ==
    \/ JDryRunCheck
    \/ JSingleCommitCheck
    \/ JBatchCommitCheck

SpecStatus == JInit /\ [][JNext]_vars

----------------------------------------------------------------------------
(* download_album on its own, statement by statement, with an acquisition  *)
(* tool that may leave the download directory in any state.                *)

\* the names an entry of the download directory can have: 1..MaxNames
MaxNames == 3
Names == 1..MaxNames

\* a directory: which names are folders and which are files
Disks == {[dirs |-> ds, files |-> fl] : ds \in SUBSET Names, fl \in SUBSET Names}

NoResult == [kind |-> "none yet", name |-> 0]

\* lines 67-74: the names of the entries that are directories
get_existing_folders(disk) == disk.dirs

\* a detection that takes every folder for a new one
AllFolders(before, after) == after

\* line 87: folders_after - folders_before
new_folders(before, after) == after \ before

\* a tool whose exit status is not looked at
AfterRunUnchecked(exit) == "ran"

\* lines 81-84: subprocess.run(..., check=True) raises CalledProcessError
\* when the tool exits non-zero
AfterRun(exit) == IF exit = 0 THEN "ran" ELSE "raised"

DInit ==
    /\ QIdle
    /\ \E disk \in {d \in Disks : d.dirs \cap d.files = {}} :
         loc = [pc |-> "called", disk |-> disk, disk0 |-> disk, folders_before |-> {},
                folders_after |-> {}, snapshots |-> 0, runs |-> 0, exit |-> 0,
                result |-> NoResult]

\* line 79
DSnapshotBefore ==
    /\ loc.pc = "called"
    /\ loc' = [loc EXCEPT !.folders_before = get_existing_folders(loc.disk),
                          !.snapshots = @ + 1, !.pc = "snapshot taken"]
    /\ UNCHANGED <<qvars, pvars>>

\* lines 81-84: the tool runs; it may add, remove and replace entries, and it
\* exits with zero or not
DRun ==
    /\ loc.pc = "snapshot taken"
    /\ \E disk \in {d \in Disks : d.dirs \cap d.files = {}}, exit \in {0, 1} :
         loc' = [loc EXCEPT !.disk = disk, !.runs = @ + 1, !.exit = exit,
                            !.pc = AfterRun(exit),
                            !.result = IF AfterRun(exit) = "raised"
                                       THEN [kind |-> "CalledProcessError", name |-> 0]
                                       ELSE @]
    /\ UNCHANGED <<qvars, pvars>>

\* line 86
DSnapshotAfter ==
    /\ loc.pc = "ran"
    /\ loc' = [loc EXCEPT !.folders_after = get_existing_folders(loc.disk),
                          !.snapshots = @ + 1, !.pc = "compared"]
    /\ UNCHANGED <<qvars, pvars>>

\* lines 87-92: None without a new folder, else set.pop(), which gives any
\* one of the new folders
DReturn ==
    /\ loc.pc = "compared"
    /\ LET new == new_folders(loc.folders_before, loc.folders_after)
       IN IF new = {}
          THEN loc' = [loc EXCEPT !.pc = "returned", !.result = [kind |-> "None", name |-> 0]]
          ELSE \E n \in new :
                 loc' = [loc EXCEPT !.pc = "returned",
                                    !.result = [kind |-> "folder", name |-> n]]
    /\ UNCHANGED <<qvars, pvars>>

DNext ==
    \/ DSnapshotBefore
    \/ DRun
    \/ DSnapshotAfter
    \/ DReturn

SpecDownload == DInit /\ [][DNext]_vars

----------------------------------------------------------------------------
(* flatten_nested_album_folder on its own.  A name is a sequence of        *)
(* characters, a path is a sequence of names below the download directory, *)
(* and the directory is a set of nodes, each a path with its kind.         *)

\* the deepest nesting of the album folder that is tried: A/B/C for 2
MaxDepth == 2

ChainLetters == <<"A", "B", "C", "D", "E">>
Digits == <<"1", "2", "3", "4", "5", "6", "7", "8", "9">>

Dir(p) == [path |-> p, kind |-> "dir"]
File(p) == [path |-> p, kind |-> "file"]

Last(q) == q[Len(q)]
Front(q) == SubSeq(q, 1, Len(q) - 1)
IsPrefix(p, q) == Len(p) <= Len(q) /\ SubSeq(q, 1, Len(p)) = p

\* os.path.exists, os.path.isdir, os.listdir
exists(t, p) == \E n \in t : n.path = p
isdir(t, p) == Dir(p) \in t
listdir(t, p) == {n.path[Len(p) + 1] : n \in {m \in t : Len(m.path) = Len(p) + 1 /\ IsPrefix(p, m.path)}}

\* the nodes below p, and the same with their paths taken relative to p
Under(t, p) == {n \in t : Len(n.path) > Len(p) /\ IsPrefix(p, n.path)}
Contents(t, p) == {[path |-> SubSeq(n.path, Len(p) + 1, Len(n.path)), kind |-> n.kind] : n \in Under(t, p)}

\* os.rename of a folder to a free path
Rename(t, src, dst) ==
    {IF IsPrefix(src, n.path)
     THEN [n EXCEPT !.path = dst \o SubSeq(n.path, Len(src) + 1, Len(n.path))]
     ELSE n : n \in t}

\* line 165, shutil.move of a folder: into dst when dst is a directory, a
\* failure when dst (or the place inside it) is taken, a rename otherwise
Move(t, src, dst) ==
    IF isdir(t, dst)
    THEN LET real_dst == dst \o <<Last(src)>>
         IN IF exists(t, real_dst)
            THEN [ok |-> FALSE, tree |-> t]
            ELSE [ok |-> TRUE, tree |-> Rename(t, src, real_dst)]
    ELSE IF exists(t, dst)
    THEN [ok |-> FALSE, tree |-> t]
    ELSE [ok |-> TRUE, tree |-> Rename(t, src, dst)]

\* a folder with a subfolder, whatever else it holds
IsNestedAnyDir(t, p) == \E c \in listdir(t, p) : isdir(t, p \o <<c>>)

\* a test that never sees a nesting
IsNestedNever(t, p) == FALSE

\* lines 142-144: exactly one entry, and it is a directory
IsNested(t, p) ==
    /\ Cardinality(listdir(t, p)) = 1
    /\ \A c \in listdir(t, p) : isdir(t, p \o <<c>>)

\* lines 143, 148: contents[0] of the one-entry listing
child_name(t, p) == CHOOSE c \in listdir(t, p) : isdir(t, p \o <<c>>)

\* the two names put together with nothing between them
JoinedPlain(parent, child) == parent \o child

\* line 149: f"{parent_name}-{child_name}"
Joined(parent, child) == parent \o <<"-">> \o child

\* line 160: f"{new_path}_{counter}"
Suffixed(p, counter) == Front(p) \o <<Last(p) \o <<"_", Digits[counter]>>>>

\* lines 158-159: the first counter from the given one whose path is free
RECURSIVE FreeCounter(_, _, _)
FreeCounter(t, p, counter) ==
    IF exists(t, Suffixed(p, counter)) THEN FreeCounter(t, p, counter + 1) ELSE counter

\* the combined path, taken or not
TakenPath(t, p) == p

\* lines 155-161: the combined path, or its first free suffixed form
FreePath(t, p) == IF exists(t, p) THEN Suffixed(p, FreeCounter(t, p, 1)) ELSE p

\* lines 147-153
NewPath(t, album_folder) ==
    LET parent_name == Last(album_folder)
        new_name == Joined(parent_name, child_name(t, album_folder))
        parent_dir == Front(album_folder)
    IN FreePath(t, parent_dir \o <<new_name>>)

\* the album folder A holding the chain B/C/.., and the innermost folder's
\* entries: files f and g, a folder x with a file h
ChainPath(k) == [i \in 1..k |-> <<ChainLetters[i]>>]
LeafEntries == {"f", "g", "x"}
AlbumTree(depth, leaf) ==
    LET inner == ChainPath(depth + 1)
    IN {Dir(ChainPath(k)) : k \in 1..(depth + 1)}
       \cup {File(inner \o <<<<e>>>>) : e \in leaf \cap {"f", "g"}}
       \cup (IF "x" \in leaf
             THEN {Dir(inner \o <<<<"x">>>>), File(inner \o <<<<"x">>, <<"h">>>>)}
             ELSE {})

\* what else the download directory may hold: entries that have the names
\* flattening would pick
RECURSIVE JoinAll(_)
JoinAll(names) ==
    IF Len(names) = 1 THEN names[1] ELSE Joined(JoinAll(Front(names)), Last(names))
SiblingNames ==
    {JoinAll(ChainPath(k)) : k \in 2..(MaxDepth + 1)} \cup {Last(Suffixed(<<JoinAll(ChainPath(2))>>, 1))}
SiblingKinds == {"absent", "dir", "file"}
SiblingTree(kinds) ==
    UNION {IF kinds[n] = "dir" THEN {Dir(<<n>>), File(<<n, <<"s">>>>)}
           ELSE IF kinds[n] = "file" THEN {File(<<n>>)}
           ELSE {} : n \in SiblingNames}

NoPath == <<>>

FInit ==
    /\ QIdle
    /\ \E depth \in 0..MaxDepth, leaf \in SUBSET LeafEntries, kinds \in [SiblingNames -> SiblingKinds] :
         LET t == AlbumTree(depth, leaf) \cup SiblingTree(kinds)
         IN loc = [pc |-> "loop", tree |-> t, tree0 |-> t, input |-> ChainPath(1),
                   album_folder |-> ChainPath(1), new_path |-> NoPath, result |-> NoPath,
                   raised |-> "nothing"]

FRaise(what) == loc' = [loc EXCEPT !.pc = "raised", !.raised = what]

\* lines 138-144, 177-179: list the folder; leave the loop and return unless
\* it holds one subfolder and nothing else
FCheck ==
    /\ loc.pc = "loop"
    /\ IF ~isdir(loc.tree, loc.album_folder)
       THEN FRaise("listdir")
       ELSE IF IsNested(loc.tree, loc.album_folder)
       THEN loc' = [loc EXCEPT !.pc = "nested"]
       ELSE loc' = [loc EXCEPT !.pc = "returned", !.result = loc.album_folder]
    /\ UNCHANGED <<qvars, pvars>>

\* lines 145-165: the combined name, made free, and the move
FMove ==
    /\ loc.pc = "nested"
    /\ LET single_item == loc.album_folder \o <<child_name(loc.tree, loc.album_folder)>>
           new_path == NewPath(loc.tree, loc.album_folder)
           m == Move(loc.tree, single_item, new_path)
       IN IF m.ok
          THEN loc' = [loc EXCEPT !.pc = "moved", !.tree = m.tree, !.new_path = new_path]
          ELSE FRaise("move")
    /\ UNCHANGED <<qvars, pvars>>

\* line 165: the system refuses the move
FMoveRefused ==
    /\ loc.pc = "nested"
    /\ FRaise("move refused")
    /\ UNCHANGED <<qvars, pvars>>

\* lines 168, 173-176: remove the emptied parent and go on with the new path
FRmdir ==
    /\ loc.pc = "moved"
    /\ IF isdir(loc.tree, loc.album_folder) /\ listdir(loc.tree, loc.album_folder) = {}
       THEN loc' = [loc EXCEPT !.pc = "loop", !.tree = @ \ {Dir(loc.album_folder)},
                               !.album_folder = loc.new_path, !.new_path = NoPath]
       ELSE FRaise("rmdir")
    /\ UNCHANGED <<qvars, pvars>>

\* line 168: the system refuses the removal
FRmdirRefused ==
    /\ loc.pc = "moved"
    /\ FRaise("rmdir refused")
    /\ UNCHANGED <<qvars, pvars>>

FNext ==
    \/ FCheck
    \/ FMove
    \/ FMoveRefused
    \/ FRmdir
    \/ FRmdirRefused

SpecFlatten == FInit /\ [][FNext]_vars

\* the function keeps running until it returns or raises
SpecFlattenRuns == SpecFlatten /\ WF_vars(FNext)

----------------------------------------------------------------------------
(* get_piece_size on its own.  A size in bytes is kept as whole MiB plus   *)
(* the bytes beyond them, since 2 GiB does not fit a 32-bit integer; the   *)
(* comparisons are those of the byte counts.                               *)

KiB == 1024
MiB == 1024 * 1024
GiBInMiB == 1024

\* how far from a bucket's bound the sizes that are tried lie, in bytes
MaxOffset == 1

Bytes(mib, rest) == [mib |-> mib, rest |-> rest]

\* the byte count n MiB + d, for d from -MiB to MiB
Around(n, d) == IF d < 0 THEN Bytes(n - 1, MiB + d) ELSE Bytes(n, d)

\* total_size <= n * MiB
AtMostMiB(size, n) == size.mib < n \/ (size.mib = n /\ size.rest = 0)

\* total_size < n * MiB
BelowMiB(size, n) == size.mib < n

\* s1 < s2
SizeLess(s1, s2) == s1.mib < s2.mib \/ (s1.mib = s2.mib /\ s1.rest < s2.rest)

\* the buckets with their bounds excluded
get_piece_size_exclusive(total_size) ==
    IF BelowMiB(total_size, 50) THEN 32 * KiB
    ELSE IF BelowMiB(total_size, 150) THEN 64 * KiB
    ELSE IF BelowMiB(total_size, 350) THEN 128 * KiB
    ELSE IF BelowMiB(total_size, 512) THEN 256 * KiB
    ELSE IF BelowMiB(total_size, 1 * GiBInMiB) THEN 512 * KiB
    ELSE IF BelowMiB(total_size, 2 * GiBInMiB) THEN 1024 * KiB
    ELSE 2048 * KiB

\* the buckets with two piece sizes exchanged
get_piece_size_swapped(total_size) ==
    IF AtMostMiB(total_size, 50) THEN 32 * KiB
    ELSE IF AtMostMiB(total_size, 150) THEN 64 * KiB
    ELSE IF AtMostMiB(total_size, 350) THEN 256 * KiB
    ELSE IF AtMostMiB(total_size, 512) THEN 128 * KiB
    ELSE IF AtMostMiB(total_size, 1 * GiBInMiB) THEN 512 * KiB
    ELSE IF AtMostMiB(total_size, 2 * GiBInMiB) THEN 1024 * KiB
    ELSE 2048 * KiB

\* lines 204-223
get_piece_size(total_size) ==
    IF AtMostMiB(total_size, 50) THEN 32 * KiB
    ELSE IF AtMostMiB(total_size, 150) THEN 64 * KiB
    ELSE IF AtMostMiB(total_size, 350) THEN 128 * KiB
    ELSE IF AtMostMiB(total_size, 512) THEN 256 * KiB
    ELSE IF AtMostMiB(total_size, 1 * GiBInMiB) THEN 512 * KiB
    ELSE IF AtMostMiB(total_size, 2 * GiBInMiB) THEN 1024 * KiB
    ELSE 2048 * KiB

\* the sizes that are tried: 0, 3 GiB, and those next to a bucket's bound
BoundsMiB == {50, 150, 350, 512, 1 * GiBInMiB, 2 * GiBInMiB}
Sizes ==
    {Bytes(0, 0), Bytes(3 * GiBInMiB, 0)}
    \cup {Around(n, d) : n \in BoundsMiB, d \in (0 - MaxOffset)..MaxOffset}

\* two calls, to compare their results
ZInit ==
    /\ QIdle
    /\ \E s1 \in Sizes, s2 \in Sizes :
         loc = [pc |-> "called", s1 |-> s1, s2 |-> s2, p1 |-> 0, p2 |-> 0]

ZPieceSize ==
    /\ loc.pc = "called"
    /\ loc' = [loc EXCEPT !.pc = "returned", !.p1 = get_piece_size(loc.s1),
                          !.p2 = get_piece_size(loc.s2)]
    /\ UNCHANGED <<qvars, pvars>>

ZNext == ZPieceSize

SpecSize == ZInit /\ [][ZNext]_vars

----------------------------------------------------------------------------
(* create_torrent on its own: an album folder with a file directly inside  *)
(* and a file in a subfolder, and an output directory that may hold an     *)
(* entry with the descriptor's name.                                       *)

\* size1 + size2 in bytes
SizeSum(s1, s2) ==
    IF s1.rest + s2.rest >= MiB
    THEN Bytes(s1.mib + s2.mib + 1, s1.rest + s2.rest - MiB)
    ELSE Bytes(s1.mib + s2.mib, s1.rest + s2.rest)

\* the sizes a file of the album may have
FileSizes == {Bytes(0, 0), Bytes(25, 0), Bytes(25, 1), Bytes(1023, MiB - 1), Bytes(GiBInMiB, 0)}

\* the files of an album folder: where each is, and its size
AlbumFileSets ==
    {top \cup sub : top \in {{}} \cup {{[at |-> "top", size |-> z]} : z \in FileSizes},
                    sub \in {{}} \cup {{[at |-> "subfolder", size |-> z]} : z \in FileSizes}}

RECURSIVE SizeOfFiles(_)
SizeOfFiles(files) ==
    IF files = {} THEN Bytes(0, 0)
    ELSE LET f == CHOOSE x \in files : TRUE
         IN SizeSum(f.size, SizeOfFiles(files \ {f}))

\* a size taken from the files directly inside the folder only
get_folder_size_top(files) == SizeOfFiles({f \in files : f.at = "top"})

\* lines 194-201: os.walk visits the folder and every folder below it
get_folder_size(files) == SizeOfFiles(files)

\* lines 889-890: f"{album_name}.torrent"
TorrentName(album_name) == album_name \o <<".torrent">>

\* what is at a path of the output directory
Nothing == [kind |-> "nothing", trackers |-> <<>>, source |-> "", private |-> FALSE, piece_size |-> 0]
OldFile == [Nothing EXCEPT !.kind = "old file"]
Folder == [Nothing EXCEPT !.kind = "folder"]

AnnounceURLs == {"announce1", "announce2"}

TInit ==
    /\ QIdle
    /\ \E files \in AlbumFileSets, announce_url \in AnnounceURLs,
          out \in {[exists |-> FALSE, at_path |-> Nothing]}
                  \cup {[exists |-> TRUE, at_path |-> e] : e \in {Nothing, OldFile, Folder}} :
         loc = [pc |-> "called", files |-> files, album_name |-> <<"X">>,
                announce_url |-> announce_url, out |-> out, out0 |-> out, piece_size |-> 0,
                torrent_path |-> <<>>, t |-> Nothing, result |-> <<>>]

\* lines 883-890: the output directory, the piece size, the path
TPrepare ==
    /\ loc.pc = "called"
    /\ loc' = [loc EXCEPT !.pc = "prepared", !.out.exists = TRUE,
                          !.piece_size = get_piece_size(get_folder_size(loc.files)),
                          !.torrent_path = <<"output_dir", TorrentName(loc.album_name)>>]
    /\ UNCHANGED <<qvars, pvars>>

\* lines 892-894: os.remove of what is at the path; it raises for a folder
TRemoveExisting ==
    /\ loc.pc = "prepared"
    /\ IF loc.out.at_path.kind = "folder"
       THEN loc' = [loc EXCEPT !.pc = "raised"]
       ELSE loc' = [loc EXCEPT !.pc = "path free", !.out.at_path = Nothing]
    /\ UNCHANGED <<qvars, pvars>>

\* lines 896-901: the descriptor; Torrent.generate raises for a folder that
\* holds no data
TGenerate ==
    /\ loc.pc = "path free"
    /\ IF \A f \in loc.files : f.size = Bytes(0, 0)
       THEN loc' = [loc EXCEPT !.pc = "raised"]
       ELSE loc' = [loc EXCEPT !.pc = "generated",
                               !.t = [kind |-> "descriptor", trackers |-> <<loc.announce_url>>,
                                      source |-> "RED", private |-> TRUE,
                                      piece_size |-> loc.piece_size]]
    /\ UNCHANGED <<qvars, pvars>>

\* lines 902-904
TWrite ==
    /\ loc.pc = "generated"
    /\ loc' = [loc EXCEPT !.pc = "returned", !.out.at_path = loc.t, !.result = loc.torrent_path]
    /\ UNCHANGED <<qvars, pvars>>

TNext ==
    \/ TPrepare
    \/ TRemoveExisting
    \/ TGenerate
    \/ TWrite

SpecTorrent == TInit /\ [][TNext]_vars

----------------------------------------------------------------------------
(* The release type: get_default_release_type and prompt_release_type.     *)

\* lines 532-548
RELEASE_TYPES ==
    [c \in {1, 3, 5, 6, 7, 9, 11, 13, 14, 15, 16, 17, 18, 19, 21} |->
        CASE c = 1 -> "Album"
          [] c = 3 -> "Soundtrack"
          [] c = 5 -> "EP"
          [] c = 6 -> "Anthology"
          [] c = 7 -> "Compilation"
          [] c = 9 -> "Single"
          [] c = 11 -> "Live album"
          [] c = 13 -> "Remix"
          [] c = 14 -> "Bootleg"
          [] c = 15 -> "Interview"
          [] c = 16 -> "Mixtape"
          [] c = 17 -> "Demo"
          [] c = 18 -> "Concert Recording"
          [] c = 19 -> "DJ Mix"
          [] c = 21 -> "Unknown"]

\* str.lower() on the letters of a title
UpperLetters == <<"A", "B", "C", "D", "E", "F", "G", "H", "I", "J", "K", "L", "M",
                  "N", "O", "P", "Q", "R", "S", "T", "U", "V", "W", "X", "Y", "Z">>
LowerLetters == <<"a", "b", "c", "d", "e", "f", "g", "h", "i", "j", "k", "l", "m",
                  "n", "o", "p", "q", "r", "s", "t", "u", "v", "w", "x", "y", "z">>
LowerLetter(c) ==
    IF \E i \in 1..Len(UpperLetters) : UpperLetters[i] = c
    THEN LowerLetters[CHOOSE i \in 1..Len(UpperLetters) : UpperLetters[i] = c]
    ELSE c
lower(s) == [i \in 1..Len(s) |-> LowerLetter(s[i])]

KwRemix == <<"r", "e", "m", "i", "x">>
KwLive == <<"l", "i", "v", "e">>
KwSoundtrack == <<"s", "o", "u", "n", "d", "t", "r", "a", "c", "k">>
KwOst == <<"o", "s", "t">>
KwCompilation == <<"c", "o", "m", "p", "i", "l", "a", "t", "i", "o", "n">>
KwBestOf == <<"b", "e", "s", "t", " ", "o", "f">>
KwGreatestHits == <<"g", "r", "e", "a", "t", "e", "s", "t", " ", "h", "i", "t", "s">>

\* the album titles that are tried; <<>> is a missing album tag
Titles ==
    {<<>>,
     <<"G", "e", "n", "e", "r", "i", "c">>,
     <<"L", "i", "v", "e", " ", "a", "t", " ", "W", "e", "m", "b", "l", "e", "y">>,
     <<"G", "r", "e", "a", "t", "e", "s", "t", " ", "H", "i", "t", "s">>,
     <<"T", "h", "e", " ", "R", "e", "m", "i", "x", "e", "s">>,
     <<"R", "E", "M", "I", "X", " ", "L", "I", "V", "E">>,
     <<"G", "h", "o", "s", "t">>,
     <<"O", "r", "i", "g", "i", "n", "a", "l", " ", "S", "o", "u", "n", "d", "t", "r", "a", "c", "k">>,
     <<"B", "e", "s", "t", " ", "O", "f", " ", "L", "i", "v", "e">>,
     <<"T", "h", "e", " ", "B", "e", "s", "t", " ", "o", "f", " ", "X">>,
     <<"C", "o", "m", "p", "i", "l", "a", "t", "i", "o", "n", " ", "O", "S", "T">>,
     <<"O", "l", "i", "v", "e">>,
     <<"H", "i", "t", "s">>}

\* the most FLAC files an album folder is given
MaxTracks == 7

\* the FLAC files directly inside the folder, or a folder that cannot be listed
Unlistable == 0 - 1
TrackCounts == (0..MaxTracks) \cup {Unlistable}

\* lines 613-626
ByTrackCount(track_count) ==
    IF track_count = Unlistable THEN 1
    ELSE IF track_count <= 3 THEN 9
    ELSE IF track_count <= 6 THEN 5
    ELSE 1

\* the track count looked at before the title
get_default_release_type_by_count(track_count, album_name) ==
    IF track_count # Unlistable /\ track_count <= 6
    THEN ByTrackCount(track_count)
    ELSE IF album_name # <<>> /\ Contains(KwLive, lower(album_name)) THEN 11
    ELSE 1

\* lines 594-626; the folder is given by the number of its FLAC files
get_default_release_type(track_count, album_name) ==
    LET album_lower == lower(album_name)
    IN IF album_name # <<>> /\ Contains(KwRemix, album_lower) THEN 13
       ELSE IF album_name # <<>> /\ Contains(KwLive, album_lower) THEN 11
       ELSE IF album_name # <<>>
               /\ (Contains(KwSoundtrack, album_lower) \/ Contains(KwOst, album_lower)) THEN 3
       ELSE IF album_name # <<>>
               /\ \E kw \in {KwCompilation, KwBestOf, KwGreatestHits} : Contains(kw, album_lower) THEN 7
       ELSE ByTrackCount(track_count)

\* str(n) and int(text) for the numbers of the release type menu
DigitChars == <<"0", "1", "2", "3", "4", "5", "6", "7", "8", "9">>
IsDigit(c) == \E i \in 1..Len(DigitChars) : DigitChars[i] = c
DigitValue(c) == (CHOOSE i \in 1..Len(DigitChars) : DigitChars[i] = c) - 1
RECURSIVE Decimal(_)
Decimal(n) ==
    IF n < 10 THEN <<DigitChars[n + 1]>>
    ELSE Decimal(n \div 10) \o <<DigitChars[(n % 10) + 1]>>
RECURSIVE DigitsValue(_)
DigitsValue(ds) ==
    IF ds = <<>> THEN 0 ELSE 10 * DigitsValue(SubSeq(ds, 1, Len(ds) - 1)) + DigitValue(ds[Len(ds)])

\* int(): blanks around the number and a sign are accepted; anything else is
\* a ValueError
ParseInt(text) ==
    LET t == [i \in 1..Len(text) |-> text[i]]
        first == CHOOSE i \in 1..(Len(t) + 1) :
                    /\ \A j \in 1..(i - 1) : t[j] = " "
                    /\ i = Len(t) + 1 \/ t[i] # " "
        last == CHOOSE i \in 0..Len(t) :
                    /\ \A j \in (i + 1)..Len(t) : t[j] = " "
                    /\ i = 0 \/ t[i] # " "
        core == IF first > last THEN <<>> ELSE SubSeq(t, first, last)
        signed == core # <<>> /\ core[1] \in {"+", "-"}
        ds == IF signed THEN SubSeq(core, 2, Len(core)) ELSE core
    IN IF ds # <<>> /\ \A i \in 1..Len(ds) : IsDigit(ds[i])
       THEN [ok |-> TRUE, value |-> IF signed /\ core[1] = "-" THEN 0 - DigitsValue(ds) ELSE DigitsValue(ds)]
       ELSE [ok |-> FALSE, value |-> 0]

\* Prompt.ask(..., default=str(default)): an empty entry gives the default
Ask(entry, default) == IF entry = <<>> THEN Decimal(default) ELSE entry

\* any number of the menu's range
InRange(choice) == choice \in 1..21

\* line 648: choice in RELEASE_TYPES
InTable(choice) == choice \in DOMAIN RELEASE_TYPES

\* what the user may type at "Select release type"
Entries ==
    {<<>>, <<"5">>, <<"2">>, <<"0">>, <<"-", "1">>, <<"2", "1">>, <<"2", "2">>,
     <<" ", "9">>, <<"a", "b", "c">>, <<"5", ".", "0">>}

\* how often the release type is asked for at most
MaxAsks == 2

\* get_default_upload_fields (automatic) or prompt_upload_fields, as far as
\* the release type goes
RInit ==
    /\ QIdle
    /\ \E album_name \in Titles, track_count \in TrackCounts, auto \in BOOLEAN :
         loc = [pc |-> "called", album_name |-> album_name, track_count |-> track_count,
                auto |-> auto, default |-> 0, entry |-> <<>>, asks |-> 0, releasetype |-> 0]

\* lines 657, 687 (automatic) and 700
RDetect ==
    /\ loc.pc = "called"
    /\ LET default_release_type == get_default_release_type(loc.track_count, loc.album_name)
       IN IF loc.auto
          THEN loc' = [loc EXCEPT !.pc = "fields made", !.default = default_release_type,
                                  !.releasetype = default_release_type]
          ELSE loc' = [loc EXCEPT !.pc = "asking", !.default = default_release_type]
    /\ UNCHANGED <<qvars, pvars>>

\* lines 645-652, 747: one turn of the loop of prompt_release_type
RAsk ==
    /\ loc.pc = "asking"
    /\ loc.asks < MaxAsks
    /\ \E entry \in Entries :
         LET choice == ParseInt(Ask(entry, loc.default))
         IN IF choice.ok /\ InTable(choice.value)
            THEN loc' = [loc EXCEPT !.pc = "fields made", !.entry = entry, !.asks = @ + 1,
                                    !.releasetype = choice.value]
            ELSE loc' = [loc EXCEPT !.entry = entry, !.asks = @ + 1]
    /\ UNCHANGED <<qvars, pvars>>

RNext ==
    \/ RDetect
    \/ RAsk

SpecReleaseType == RInit /\ [][RNext]_vars

----------------------------------------------------------------------------
(* get_release_description on its own.                                     *)

\* the digits of n (below 1000) after the decimal point of n / 1000, as
\* str() writes them: three places without the zeros at the end
RECURSIVE DropZeros(_)
DropZeros(ds) ==
    IF ds # <<>> /\ ds[Len(ds)] = "0" THEN DropZeros(SubSeq(ds, 1, Len(ds) - 1)) ELSE ds
Thousandths(n) ==
    DropZeros(<<DigitChars[(n \div 100) + 1], DigitChars[((n \div 10) % 10) + 1], DigitChars[(n % 10) + 1]>>)

\* str(sample_rate / 1000)
FloatText(sample_rate) ==
    Decimal(sample_rate \div 1000) \o <<".">>
        \o (IF sample_rate % 1000 = 0 THEN <<"0">> ELSE Thousandths(sample_rate % 1000))

\* the rate always written as the float it is
sample_rate_str_float(sample_rate) == FloatText(sample_rate)

\* lines 270-275
sample_rate_str(sample_rate) ==
    IF sample_rate % 1000 = 0 THEN Decimal(sample_rate \div 1000) ELSE FloatText(sample_rate)

\* a source URL: None, or a text that may be empty
NoURL == [given |-> FALSE, text |-> <<>>]
URLText(t) == [given |-> TRUE, text |-> t]

\* lines 268-280
get_release_description(bits_per_sample, sample_rate, qobuz_url) ==
    LET desc == Decimal(bits_per_sample) \o <<"/">> \o sample_rate_str(sample_rate)
                    \o <<" ", "Q", "o", "b", "u", "z", " ", "R", "i", "p">>
    IN IF qobuz_url.given /\ qobuz_url.text # <<>>
       THEN desc \o <<" ", "[", "u", "r", "l", "]">> \o qobuz_url.text \o <<"[", "/", "u", "r", "l", "]">>
       ELSE desc

BitDepths == {16, 24}
SampleRates == {11025, 22050, 44100, 48000, 88200, 96000, 176400, 192000}
SourceURLs == {NoURL, URLText(<<>>), URLText(<<"X">>), URLText(<<"h", "t", "t", "p", ":", "/", "/", "q", "/", "a">>)}

GInit ==
    /\ QIdle
    /\ \E bits_per_sample \in BitDepths, sample_rate \in SampleRates, qobuz_url \in SourceURLs :
         loc = [pc |-> "called", bits_per_sample |-> bits_per_sample,
                sample_rate |-> sample_rate, qobuz_url |-> qobuz_url, desc |-> <<>>]

GDescribe ==
    /\ loc.pc = "called"
    /\ loc' = [loc EXCEPT !.pc = "returned",
                          !.desc = get_release_description(loc.bits_per_sample, loc.sample_rate,
                                                           loc.qobuz_url)]
    /\ UNCHANGED <<qvars, pvars>>

GNext == GDescribe

SpecDescription == GInit /\ [][GNext]_vars

----------------------------------------------------------------------------
(* From the metadata to the fields: read_flac_metadata, the defaults of    *)
(* main() for a folder without FLAC files, and the making of the fields.   *)

\* the tags and the stream info of a FLAC file
NoTags == [artist |-> <<>>, album |-> <<>>, date |-> <<>>, year |-> <<>>, label |-> <<>>,
           organization |-> <<>>, genre |-> <<>>, bits_per_sample |-> 16, sample_rate |-> 44100]
FlacFiles ==
    {NoTags,
     [NoTags EXCEPT !.artist = <<"A">>, !.album = <<"L", "i", "v", "e">>,
                    !.date = <<"2", "0", "2", "0", "-", "0", "1">>, !.label = <<"B">>,
                    !.genre = <<"r", "o", "c", "k">>, !.bits_per_sample = 24, !.sample_rate = 96000],
     [NoTags EXCEPT !.artist = <<"A">>, !.album = <<"X">>, !.year = <<"1", "9", "9", "9">>,
                    !.organization = <<"C">>]}

\* no metadata (None), and a metadata dict
None == [present |-> FALSE, artist |-> <<>>, album |-> <<>>, year |-> <<>>, label |-> <<>>,
         genre |-> <<>>, bits_per_sample |-> 0, sample_rate |-> 0]

\* lines 241-256: the dict made from the first FLAC file
MetadataOf(audio) ==
    [present |-> TRUE,
     artist |-> audio.artist,
     album |-> audio.album,
     year |-> IF audio.date # <<>> THEN SubSeq(audio.date, 1, Min(4, Len(audio.date))) ELSE audio.year,
     label |-> IF audio.label # <<>> THEN audio.label ELSE audio.organization,
     genre |-> audio.genre,
     bits_per_sample |-> audio.bits_per_sample,
     sample_rate |-> audio.sample_rate]

\* metadata that is passed on as it was read
MetadataAsRead(metadata) == metadata

\* lines 1088-1098 and 1235-1245: if not metadata: the defaults
MetadataOrDefaults(metadata) ==
    IF ~metadata.present
    THEN [present |-> TRUE, artist |-> <<>>, album |-> <<>>, year |-> <<>>, label |-> <<>>,
          genre |-> <<>>, bits_per_sample |-> 16, sample_rate |-> 44100]
    ELSE metadata

\* lines 261-265
get_bitrate_string(bits_per_sample) == IF bits_per_sample = 24 THEN "24bit Lossless" ELSE "Lossless"

\* what the user types where a prompt has no default, or instead of one
Typed == <<"t">>

\* lines 654-687, and 690-805 with the answers of the user (keep: every
\* default is accepted; a required field without default is typed in).
\* The cover and the tracklist come from the page of the URL.
UploadFields(metadata, qobuz_url, page, review, releasetype) ==
    LET required(default) == IF review /\ default = <<>> THEN Typed ELSE default
    IN [artists |-> required(metadata.artist),
        title |-> required(metadata.album),
        year |-> required(metadata.year),
        releasetype |-> releasetype,
        remaster_year |-> metadata.year,
        remaster_title |-> <<>>,
        remaster_record_label |-> metadata.label,
        remaster_catalogue_number |-> <<>>,
        format |-> "FLAC",
        bitrate |-> get_bitrate_string(metadata.bits_per_sample),
        media |-> "WEB",
        tags |-> metadata.genre,
        image |-> page.cover,
        album_desc |-> page.tracklist,
        release_desc |-> get_release_description(metadata.bits_per_sample, metadata.sample_rate,
                                                 qobuz_url),
        groupid |-> <<>>]

NoFields == UploadFields(MetadataOrDefaults(None), NoURL, [cover |-> <<>>, tracklist |-> <<>>], FALSE, 0)

\* what get_qobuz_cover and get_qobuz_tracklist find
Pages == {[cover |-> <<>>, tracklist |-> <<>>], [cover |-> <<"i">>, tracklist |-> <<"1", ".">>]}

\* the most FLAC files directly inside the folder
MaxFlacs == 2

EInit ==
    /\ QIdle
    /\ \E flow \in {"single", "batch"}, flacs \in 0..MaxFlacs, audio \in FlacFiles,
          qobuz_url \in {NoURL, URLText(<<"X">>)}, page \in Pages :
         /\ flow = "batch" => qobuz_url.given
         /\ ~qobuz_url.given => page = [cover |-> <<>>, tracklist |-> <<>>]
         /\ flacs = 0 => audio = NoTags
         /\ loc = [pc |-> "ExtractMetadata", flow |-> flow, flacs |-> flacs, audio |-> audio,
                   qobuz_url |-> qobuz_url, page |-> page, metadata |-> None,
                   review |-> FALSE, fields |-> NoFields, submitted |-> FALSE]

\* lines 226-258, 1086, 1233: None without a FLAC file; FLAC() may raise
ERead ==
    /\ loc.pc = "ExtractMetadata"
    /\ IF loc.flacs = 0
       THEN loc' = [loc EXCEPT !.pc = "metadata read", !.metadata = None]
       ELSE \/ loc' = [loc EXCEPT !.pc = "metadata read", !.metadata = MetadataOf(loc.audio)]
            \/ loc' = [loc EXCEPT !.pc = "failed"]
    /\ UNCHANGED <<qvars, pvars>>

\* lines 1088-1098, 1235-1245
EDefaults ==
    /\ loc.pc = "metadata read"
    /\ loc' = [loc EXCEPT !.pc = "DeriveFields", !.metadata = MetadataOrDefaults(loc.metadata)]
    /\ UNCHANGED <<qvars, pvars>>

\* lines 1101-1120, 1247-1266: the fields, by the defaults or by the
\* prompts; metadata["bits_per_sample"] of None is a TypeError
EFields ==
    /\ loc.pc = "DeriveFields"
    /\ IF ~loc.metadata.present
       THEN loc' = [loc EXCEPT !.pc = "failed"]
       ELSE \E review \in BOOLEAN :
              LET default_release_type == get_default_release_type(loc.flacs, loc.metadata.album)
              IN \E releasetype \in IF review THEN {default_release_type, 21}
                                               ELSE {default_release_type} :
                   loc' = [loc EXCEPT !.pc = "Submit", !.review = review,
                                      !.fields = UploadFields(loc.metadata, loc.qobuz_url, loc.page,
                                                              review, releasetype)]
    /\ UNCHANGED <<qvars, pvars>>

\* lines 1131, 1278: upload_torrent is called with the fields
ESubmit ==
    /\ loc.pc = "Submit"
    /\ loc' = [loc EXCEPT !.pc = "submitted", !.submitted = TRUE]
    /\ UNCHANGED <<qvars, pvars>>

ENext ==
    \/ ERead
    \/ EDefaults
    \/ EFields
    \/ ESubmit

SpecMetadata == EInit /\ [][ENext]_vars

----------------------------------------------------------------------------
(* The selection prompt of main() on its own, lines 944-1023 and 1181-1197 *)
(* with a list of recent albums, numbered from 1.                          *)

\* the most albums the destination directory is given
MaxAlbums == 3

\* what the user may type at the selection prompt
SelectionEntries ==
    {<<>>, <<"p">>, <<"P">>, <<"b">>, <<"B">>, <<"x">>, <<"1", ".", "5">>,
     <<"0">>, <<"-", "1">>, <<"-", "9">>}
    \cup {Decimal(k) : k \in 1..(MaxAlbums + 1)}

\* str.upper() of an entry, for the two menu letters
Upper(entry) == [i \in 1..Len(entry) |-> IF entry[i] = "p" THEN "P"
                                           ELSE IF entry[i] = "b" THEN "B" ELSE entry[i]]

\* recent_albums[album_index]: the place in the list, counted from 1; Python
\* counts a negative index from the end of the list
Indexed(album_index, n) == IF album_index >= 0 THEN album_index + 1 ELSE n + album_index + 1

KInit ==
    /\ QIdle
    /\ \E albums \in 0..MaxAlbums, has_links \in BOOLEAN :
         loc = [pc |-> "Selection", albums |-> Min(albums, RecentMax), has_links |-> has_links,
                entry |-> <<>>, entered |-> FALSE, album |-> 0, url |-> <<>>]

KTo(where, entry, album) ==
    loc' = [loc EXCEPT !.pc = where, !.entry = entry, !.entered = TRUE, !.album = album,
                       !.url = <<>>]

\* lines 944-1023: the entry at the selection prompt.  [P] gives links or
\* not; [B] needs links in the queue file; with albums listed, an entry that
\* is neither is taken as a number
KSelect ==
    /\ loc.pc = "Selection"
    /\ \E entry \in SelectionEntries :
         IF Upper(entry) = <<"P">>
         THEN \/ KTo("batch", entry, 0)
              \/ KTo("Selection", entry, 0)
         ELSE IF Upper(entry) = <<"B">> /\ loc.has_links
         THEN KTo("batch", entry, 0)
         ELSE IF loc.albums = 0
         THEN KTo("Enter Qobuz album URL", entry, 0)
         ELSE IF Upper(entry) = <<"B">>
         THEN KTo("Selection", entry, 0)
         ELSE IF entry # <<>>
         THEN LET number == ParseInt(entry)
                  album_index == number.value - 1
              IN IF number.ok /\ IndexExists(album_index, loc.albums)
                 THEN KTo("existing album", entry, Indexed(album_index, loc.albums))
                 ELSE KTo("Enter Qobuz album URL", entry, 0)
         ELSE KTo("Enter Qobuz album URL", entry, 0)
    /\ UNCHANGED <<qvars, pvars>>

\* lines 1181-1193: the URL of the album to download; without one, back to
\* the selection
KEnterURL ==
    /\ loc.pc = "Enter Qobuz album URL"
    /\ \E url \in {<<>>, <<"a">>} :
         loc' = [loc EXCEPT !.url = url, !.pc = IF url = <<>> THEN "Selection" ELSE "Acquire"]
    /\ UNCHANGED <<qvars, pvars>>

KNext ==
    \/ KSelect
    \/ KEnterURL

SpecSelect == KInit /\ [][KNext]_vars

----------------------------------------------------------------------------
(* upload_torrent on its own: the form data made from the fields.          *)

\* lines 819-829: the keys that are always sent; "unknown" and "scene" have
\* the default "0"
AlwaysSent ==
    {"type", "artists[]", "importance[]", "title", "year", "releasetype", "unknown", "scene",
     "format", "bitrate", "media"}

\* lines 832-849: the keys that are sent when they have a value
SentIfProvided ==
    {"remaster_year", "remaster_title", "remaster_record_label", "remaster_catalogue_number",
     "tags", "image", "album_desc", "release_desc", "groupid"}

\* the key is sent whenever the fields have it
HasKey(fields, key) == key \in DOMAIN fields

\* fields.get(key) is true: the key is there and its value is not empty
Provided(fields, key) == key \in DOMAIN fields /\ fields[key] # <<>>

\* lines 816-849
FormData(fields, dry_run) ==
    [key \in {"dryrun"} \cup AlwaysSent \cup {k \in SentIfProvided : Provided(fields, k)} |->
        IF key = "dryrun" THEN (IF dry_run THEN <<"1">> ELSE <<"0">>)
        ELSE IF key \in DOMAIN fields THEN fields[key]
        ELSE <<"0">>]

\* the fields as get_default_upload_fields and prompt_upload_fields make
\* them: every key but "groupid" is there, "groupid" only when asked for
FieldSets ==
    {[key \in (AlwaysSent \cup SentIfProvided) \ (IF with_group THEN {} ELSE {"groupid"}) |->
        IF key \in filled \/ key \in AlwaysSent THEN <<"v">> ELSE <<>>] :
        filled \in SUBSET SentIfProvided, with_group \in BOOLEAN}

UInit ==
    /\ QIdle
    /\ \E fields \in FieldSets, dry_run \in BOOLEAN :
         loc = [pc |-> "called", fields |-> fields, dry_run |-> dry_run,
                data |-> [key \in {} |-> <<>>], answer |-> "none"]

\* lines 816-849
UFormData ==
    /\ loc.pc = "called"
    /\ loc' = [loc EXCEPT !.pc = "data made", !.data = FormData(loc.fields, loc.dry_run)]
    /\ UNCHANGED <<qvars, pvars>>

\* lines 864-878: the torrent file is opened and the form posted; either
\* may raise, else the answer of the API is returned
UPost ==
    /\ loc.pc = "data made"
    /\ \E answer \in {"raised", "success", "failure"} :
         loc' = [loc EXCEPT !.pc = IF answer = "raised" THEN "raised" ELSE "returned",
                            !.answer = answer]
    /\ UNCHANGED <<qvars, pvars>>

UNext ==
    \/ UFormData
    \/ UPost

SpecPayload == UInit /\ [][UNext]_vars

----------------------------------------------------------------------------
(* Saving parsed links to the queue file, lines 472-480, on its own: any   *)
(* file content and either platform.                                       *)

AInit ==
    /\ file \in Files
    /\ linesep \in {LF, CRLF}
    /\ qpc = "fresh"
    /\ file_prev = file
    /\ link = <<>>
    /\ links = <<>>
    /\ links_prev = <<>>
    /\ repeat = FALSE
    /\ nmarks = 0
    /\ file0 = file
    /\ mlines = <<>>
    /\ written = 0
    /\ PIdle
    /\ loc = LIdle

\* lines 474-479: open(batch_file, "a") and the writes; links holds what was
\* saved
ASave(ls) ==
    /\ qpc = "fresh"
    /\ file_prev' = file
    /\ file' = file \o WriteTranslate(SavedText(ls), linesep)
    /\ links' = ls
    /\ qpc' = "saved"
    /\ UNCHANGED <<linesep, link, links_prev, repeat, nmarks, file0, mlines, written, pvars, loc>>

\* the file is read again
ARead ==
    /\ qpc = "saved"
    /\ links_prev' = read_batch_links(file)
    /\ qpc' = "read"
    /\ UNCHANGED <<file, linesep, file_prev, link, links, repeat, nmarks, file0, mlines, written,
                   pvars, loc>>

ANext ==
    \/ \E ls \in ParsedLists \ {<<>>} : ASave(ls)
    \/ ARead

SpecSave == AInit /\ [][ANext]_vars

----------------------------------------------------------------------------
(* parse_qobuz_page and the joining of the links of several pages.  A URL  *)
(* is a sequence of parts: scheme and host, a path segment, a name.        *)

\* the most product containers on a page
MaxContainers == 2

Host == "https://www.qobuz.com"

\* the href values of the anchors: two albums, a page that is no album, and
\* an album given with scheme and host
Hrefs == {<<"/album/", "x">>, <<"/album/", "y">>, <<"/artist/", "z">>, <<Host, "/album/", "x">>}

\* a product container: its anchors with href, in document order
Containers == SeqsUpTo(Hrefs, 2)

\* a page: its product containers, in document order
PageContents == SeqsUpTo(Containers, MaxContainers)

\* '/album/' in href
HasAlbumSegment(href) == \E i \in 1..Len(href) : href[i] = "/album/"

\* every anchor of the container
AllAnchors(container) == container

\* line 516: container.find('a', href=True), the first anchor with href
FoundAnchors(container) == IF container = <<>> THEN <<>> ELSE <<container[1]>>

\* lines 518: base_url + link['href']
FullURL(base_url, href) == <<base_url>> \o href

\* lines 436-441 and 513-522: the elements of a list, each once, in the order
\* of their first occurrence
RECURSIVE Unique(_, _)
Unique(list, seen) ==
    IF list = <<>> THEN <<>>
    ELSE IF Head(list) \in seen THEN Unique(Tail(list), seen)
    ELSE <<Head(list)>> \o Unique(Tail(list), seen \cup {Head(list)})

\* lines 513-522: the loop over the containers
RECURSIVE Extracted(_, _)
Extracted(containers, base_url) ==
    IF containers = <<>> THEN <<>>
    ELSE LET found == FoundAnchors(Head(containers))
             here == IF found # <<>> /\ HasAlbumSegment(found[1])
                     THEN <<FullURL(base_url, found[1])>> ELSE <<>>
         IN here \o Extracted(Tail(containers), base_url)

\* the links of the pages parsed before this one
EarlierLinks == {<<>>, <<<<Host, "/album/", "x">>>>, <<<<Host, "/album/", "y">>, <<Host, "/album/", "x">>>>}

HInit ==
    /\ QIdle
    /\ \E page \in PageContents, earlier \in EarlierLinks, valid \in BOOLEAN :
         loc = [pc |-> "called", valid |-> valid, page |-> page, fetched |-> FALSE,
                album_links |-> <<>>, all_album_links |-> earlier, earlier |-> earlier]

\* lines 499-506: the URL is tested and the page requested; a URL of another
\* site, or a failed request, gives no links
HFetch ==
    /\ loc.pc = "called"
    /\ IF loc.valid
       THEN \/ loc' = [loc EXCEPT !.pc = "fetched", !.fetched = TRUE]
            \/ loc' = [loc EXCEPT !.pc = "returned"]
       ELSE loc' = [loc EXCEPT !.pc = "returned"]
    /\ UNCHANGED <<qvars, pvars>>

\* lines 508-524
HExtract ==
    /\ loc.pc = "fetched"
    /\ loc' = [loc EXCEPT !.pc = "returned", !.album_links = Unique(Extracted(loc.page, Host), {})]
    /\ UNCHANGED <<qvars, pvars>>

\* lines 421-445: the links are added to those of the earlier pages, and the
\* whole list is made free of duplicates
HCombine ==
    /\ loc.pc = "returned"
    /\ loc' = [loc EXCEPT !.pc = "combined",
                          !.all_album_links = Unique(loc.earlier \o loc.album_links, {})]
    /\ UNCHANGED <<qvars, pvars>>

HNext ==
    \/ HFetch
    \/ HExtract
    \/ HCombine

SpecParse == HInit /\ [][HNext]_vars

----------------------------------------------------------------------------
(* The torrent stage over the passes of one album: the torrent a pass      *)
(* leaves in the output directory, the folder at the destination, and the  *)
(* torrent the next pass submits.  Lines 1069-1082 and 1209-1229.          *)

NoTorrent == [files |-> {}, piece_size |-> 0]

\* create_torrent for a folder with these files (lines 881-904): the
\* descriptor is generated from the folder as it is
TorrentOf(files) == [files |-> files, piece_size |-> get_piece_size(get_folder_size(files))]

\* the folder after move_album has moved a new download of the album to a
\* destination where the folder of the album exists (line 190): the new
\* copy lies in a folder inside it
WithNestedCopy(files) == files \cup {[at |-> "nested copy", size |-> f.size] : f \in files}

HasNestedCopy(files) == \E f \in files : f.at = "nested copy"

\* the first pass: the album was moved to the destination, no torrent of its
\* name is in the output directory
WInit ==
    /\ QIdle
    /\ \E files \in AlbumFileSets, batch_mode \in BOOLEAN :
         /\ \E f \in files : f.size # Bytes(0, 0)
         /\ loc = [pc |-> "torrent stage", batch_mode |-> batch_mode, files |-> files,
                   at_path |-> NoTorrent, torrent |-> NoTorrent, submitted |-> NoTorrent,
                   pass |-> 1]

\* lines 1073-1082 and 1213-1229: a torrent at the expected path is used as
\* it is, in a batch without a question and else when the user says so;
\* otherwise create_torrent writes a new one
WTorrent ==
    /\ loc.pc = "torrent stage"
    /\ \E use_existing_torrent \in BOOLEAN :
         IF loc.at_path # NoTorrent /\ (loc.batch_mode \/ use_existing_torrent)
         THEN loc' = [loc EXCEPT !.pc = "Submit", !.torrent = loc.at_path]
         ELSE loc' = [loc EXCEPT !.pc = "Submit", !.at_path = TorrentOf(loc.files),
                                 !.torrent = TorrentOf(loc.files)]
    /\ UNCHANGED <<qvars, pvars>>

\* lines 1133-1158 and 1300-1324: the commit submission of the torrent; after
\* an answer other than success the torrent stays where it is
WSubmit ==
    /\ loc.pc = "Submit"
    /\ \E success \in BOOLEAN :
         loc' = [loc EXCEPT !.pc = IF success THEN "released" ELSE "pass over",
                            !.submitted = loc.torrent]
    /\ UNCHANGED <<qvars, pvars>>

\* the next pass for the album: it is chosen among the existing albums
\* (lines 992-1001), or downloaded again and moved (1050-1069, 1192-1209);
\* shutil.move raises when the folder inside the folder exists as well
WNextPass ==
    /\ loc.pc = "pass over"
    /\ loc.pass < MaxPasses
    /\ \E again \in {"existing", "download"} :
         IF again = "existing"
         THEN loc' = [loc EXCEPT !.pc = "torrent stage", !.pass = @ + 1,
                                 !.torrent = NoTorrent, !.submitted = NoTorrent]
         ELSE IF HasNestedCopy(loc.files)
         THEN loc' = [loc EXCEPT !.pass = @ + 1, !.torrent = NoTorrent, !.submitted = NoTorrent]
         ELSE loc' = [loc EXCEPT !.pc = "torrent stage", !.pass = @ + 1,
                                 !.files = WithNestedCopy(loc.files),
                                 !.torrent = NoTorrent, !.submitted = NoTorrent]
    /\ UNCHANGED <<qvars, pvars>>

WNext ==
    \/ WTorrent
    \/ WSubmit
    \/ WNextPass

SpecReuse == WInit /\ [][WNext]_vars

----------------------------------------------------------------------------
(* handle_parse_qobuz_page and the batch parse file, lines 378-494.  The   *)
(* batch parse file holds page URLs, one per line, as the queue file holds *)
(* album URLs.                                                             *)

\* contents of the batch parse file
ParseFiles ==
    {<<>>,
     <<"a">> \o LF,
     <<"b">>,
     <<"a">> \o LF \o <<"b">> \o LF,
     <<"b">> \o LF \o <<"a">> \o LF,
     <<"#", " ", "a">> \o LF \o <<"b">> \o LF,
     <<"a">> \o CRLF \o <<"b">> \o CRLF}

\* lines 482 and 489: if batch_parse_file and len(page_urls) > 1
MarkPages(batch_parse_file, page_urls) == batch_parse_file /\ Len(page_urls) > 1

\* lines 483-485 and 490-492: mark_link_processed for each page in turn
RECURSIVE MarkedAll(_, _, _)
MarkedAll(bytes, urls, sep) ==
    IF urls = <<>> THEN bytes
    ELSE MarkedAll(mark_link_processed(bytes, Head(urls), sep), Tail(urls), sep)

\* the batch parse file is configured and exists, or is not configured
PagesInit ==
    /\ QIdle
    /\ \E bytes \in ParseFiles, sep \in {LF, CRLF}, configured \in BOOLEAN :
         /\ ~configured => bytes = <<>>
         /\ loc = [pc |-> "called", batch_parse_file |-> configured, bytes |-> bytes,
                   bytes0 |-> bytes, sep |-> sep, from_file |-> FALSE, page_urls |-> <<>>,
                   processed_page_urls |-> <<>>, choice |-> "none"]

\* lines 388-408: the page URLs, from the file on [F] or typed in
PagesSource ==
    /\ loc.pc = "called"
    /\ LET parse_links == IF loc.batch_parse_file THEN read_batch_links(loc.bytes) ELSE <<>>
       IN \E source_choice \in {"", "F"}, page_url \in URLs \cup {<<>>} :
            LET from_file == parse_links # <<>> /\ source_choice = "F"
                page_urls == IF from_file THEN parse_links
                             ELSE IF page_url # <<>> THEN <<page_url>> ELSE <<>>
            IN loc' = [loc EXCEPT !.pc = IF page_urls = <<>> THEN "returned" ELSE "pages",
                                  !.from_file = from_file, !.page_urls = page_urls]
    /\ UNCHANGED <<qvars, pvars>>

\* lines 410-432: every page is parsed; the pages that gave album links are
\* kept; without any link the function returns
PagesParse ==
    /\ loc.pc = "pages"
    /\ \E with_links \in SUBSET (1..Len(loc.page_urls)) :
         LET Gave(i) == i \in with_links
             idx == SelectSeq([i \in 1..Len(loc.page_urls) |-> i], Gave)
         IN loc' = [loc EXCEPT !.pc = IF with_links = {} THEN "returned" ELSE "links shown",
                               !.processed_page_urls = [k \in 1..Len(idx) |-> loc.page_urls[idx[k]]]]
    /\ UNCHANGED <<qvars, pvars>>

\* lines 459-494: [C]ancel, [S]ave or process now; after the last two the
\* pages are marked in the batch parse file
PagesAct ==
    /\ loc.pc = "links shown"
    /\ \E choice \in {"C", "S", ""} :
         loc' = [loc EXCEPT !.pc = "returned", !.choice = choice,
                            !.bytes = IF choice # "C" /\ MarkPages(loc.batch_parse_file, loc.page_urls)
                                      THEN MarkedAll(loc.bytes, loc.processed_page_urls, loc.sep)
                                      ELSE loc.bytes]
    /\ UNCHANGED <<qvars, pvars>>

PagesNext ==
    \/ PagesSource
    \/ PagesParse
    \/ PagesAct

SpecPages == PagesInit /\ [][PagesNext]_vars

----------------------------------------------------------------------------
(* Vocabulary of the statements about the queue file *)

\* a line without its "\n"
Text(line) == IF EndsWithNewline(line) THEN SubSeq(line, 1, Len(line) - 1) ELSE line

\* a disabled (processed, commented) line
IsDisabled(line) == StartsWithHash(Strip(line))

\* a blank line
IsBlank(line) == Strip(line) = <<>>

\* an active entry: neither blank nor disabled
IsActive(line) == Appended(Strip(line)) # <<>>

\* the lines of the bytes as they lie on disk: the text of each line and the
\* terminator that ends it ("\r\n", "\r", "\n", or none for an open last line)
RECURSIVE RawLines(_, _)
RawLines(bytes, cur) ==
    IF bytes = <<>> THEN (IF cur = <<>> THEN <<>> ELSE <<[body |-> cur, term |-> <<>>]>>)
    ELSE IF Head(bytes) = "CR" /\ Len(bytes) > 1 /\ bytes[2] = "LF"
         THEN <<[body |-> cur, term |-> CRLF]>> \o RawLines(SubSeq(bytes, 3, Len(bytes)), <<>>)
    ELSE IF Head(bytes) \in {"CR", "LF"}
         THEN <<[body |-> cur, term |-> <<Head(bytes)>>]>> \o RawLines(Tail(bytes), <<>>)
    ELSE RawLines(Tail(bytes), cur \o <<Head(bytes)>>)

\* s without every element equal to e, order kept
RECURSIVE Without(_, _)
Without(s, e) ==
    IF s = <<>> THEN <<>>
    ELSE IF Head(s) = e THEN Without(Tail(s), e) ELSE <<Head(s)>> \o Without(Tail(s), e)

----------------------------------------------------------------------------
(* C3 *)

\* C3: marking never deletes a line.  After any sequence of markings the file
\* has as many lines as at the start, in the same order: a line that was
\* disabled or blank at the start has its text unchanged (so a disabled line
\* is still disabled), a line that was an active entry either has its text
\* unchanged or is that entry disabled; and the latest marking left the text
\* of every line other than the entry it was given unchanged.
C3_MarkingNeverDeletesALine ==
    qpc = "marked" =>
        LET start == ReadLines(file0)
            old == ReadLines(file_prev)
            new == ReadLines(file)
        IN /\ Len(new) = Len(start)
           /\ Len(new) = Len(old)
           /\ \A i \in 1..Len(start) :
                /\ (IsDisabled(start[i]) \/ IsBlank(start[i]))
                      => Text(new[i]) = Text(start[i])
                /\ IsDisabled(start[i]) => IsDisabled(new[i])
                /\ IsActive(start[i]) =>
                      \/ Text(new[i]) = Text(start[i])
                      \/ /\ IsDisabled(new[i])
                         /\ Strip(Tail(Strip(new[i]))) = Strip(start[i])
           /\ \A i \in 1..Len(old) :
                Strip(old[i]) # link => Text(new[i]) = Text(old[i])

\* two markings were done on a file with a disabled line, a blank line and
\* an entry, and the second one disabled the entry
C3_Witness ==
    /\ qpc = "marked"
    /\ nmarks = 2
    /\ \E i, j, k \in 1..Len(ReadLines(file0)) :
          /\ IsDisabled(ReadLines(file0)[i])
          /\ IsBlank(ReadLines(file0)[j])
          /\ Strip(ReadLines(file_prev)[k]) = link
          /\ IsDisabled(ReadLines(file)[k])

----------------------------------------------------------------------------
(* C5 *)

\* C5: marking is idempotent.  A second mark_link_processed with the same
\* entry leaves the file byte for byte as the first call left it.
C5_MarkingIsIdempotent == repeat => file = file_prev

\* the entry was active at the start, the first call disabled it, and the
\* second call was made with the same entry
C5_Witness ==
    /\ repeat
    /\ link \in Range(read_batch_links(file0))
    /\ file # file0
    /\ \E i \in 1..Len(ReadLines(file)) : IsDisabled(ReadLines(file)[i])

----------------------------------------------------------------------------
(* C6 *)

ActiveIndexes(ls) == {i \in 1..Len(ls) : IsActive(ls[i])}

\* C6: a read after mark_link_processed(e) returns the entries the read
\* before it returned, without e, in the same order; and every read returns
\* the trimmed text of exactly the lines that are neither blank nor disabled,
\* in file order, and so never a disabled line.
C6_ReadAfterMark ==
    qpc = "read" =>
        LET ls == ReadLines(file)
            act == ActiveIndexes(ls)
        IN /\ nmarks > 0 => links = Without(links_prev, link)
           /\ Len(links) = Cardinality(act)
           /\ \A i \in act : links[Cardinality({j \in act : j <= i})] = Strip(ls[i])
           /\ \A k \in 1..Len(links) : ~StartsWithHash(links[k]) /\ links[k] # <<>>

\* an active entry (present twice, or beside another entry) was marked and
\* the queue was read again
C6_Witness ==
    /\ qpc = "read"
    /\ nmarks = 1
    /\ link \in Range(links_prev)
    /\ Len(links_prev) = 2

----------------------------------------------------------------------------
(* C7 *)

\* C7: mark_link_processed keeps every line's terminator as it was on disk
\* and every line's text, the matching line's text being the old text with
\* the marker in front.
C7_MarkKeepsLineEndingsAndText ==
    qpc = "marked" =>
        LET old == RawLines(file_prev, <<>>)
            new == RawLines(file, <<>>)
        IN /\ Len(new) = Len(old)
           /\ \A i \in 1..Len(old) :
                /\ new[i].term = old[i].term
                /\ new[i].body = IF Strip(old[i].body) = link
                                 THEN <<"#", " ">> \o old[i].body
                                 ELSE old[i].body

----------------------------------------------------------------------------
(* C4 *)

\* C4: a marking is atomic relative to interruption.  When the process was
\* interrupted during mark_link_processed the file on disk is the complete
\* old content or the complete new content.
C4_MarkIsAtomicUnderInterrupt ==
    qpc = "interrupted" =>
        \/ file = file_prev
        \/ file = mark_link_processed(file_prev, link, linesep)

----------------------------------------------------------------------------
(* Vocabulary of the statements about a pass *)

\* the line of the queue file that entry i of a batch read from the queue
\* file came from: the i-th active line of the lines ls
EntryLine(ls, i) ==
    LET act == ActiveIndexes(ls)
    IN CHOOSE k \in act : Cardinality({j \in act : j <= k}) = i

\* entry i of the batch is behind the loop: the loop is at a later entry or
\* at the summary
Finished(i) == i < batch.idx \/ pc = "summary"

\* the place of each stage in the order of the stages
Rank == [st \in Range(StageOrder) |-> CHOOSE i \in 1..Len(StageOrder) : StageOrder[i] = st]

----------------------------------------------------------------------------
(* C1 *)

----------------------------------------------------------------------------
(* C2 *)

\* C2: in batch mode every entry whose commit submission returned the success
\* status is, once the loop is behind it, counted as successful and no longer
\* an active entry of the queue file.
C2_CommitSuccessIsMarkedAndCounted ==
    mode = "batch" =>
        \A i \in 1..Len(batch.links) :
            (Finished(i) /\ batch.answers[i] = "success") =>
                /\ i \in batch.succ_idx
                /\ i \notin batch.failed_idx
                /\ batch.links[i] \notin Range(read_batch_links(file))

----------------------------------------------------------------------------
(* C8 *)

\* C8: in batch mode the entries are attempted once each, in list order, and
\* a failure of an entry does not end the batch: the attempts made so far are
\* the entries 1, 2, ... up to the current one, every entry behind the loop
\* is counted once, as successful or as failed, and the summary is reached
\* only when every entry of the list was attempted.
C8_BatchAttemptsEveryEntryOnceInOrder ==
    mode = "batch" =>
        /\ batch.idx \in 1..Len(batch.links)
        /\ batch.attempts = [i \in 1..batch.idx |-> i]
        /\ batch.succ_idx \cap batch.failed_idx = {}
        /\ batch.succ_idx \cup batch.failed_idx = {i \in 1..batch.idx : Finished(i)}
        /\ batch.successful = Cardinality(batch.succ_idx)
        /\ batch.failed = Cardinality(batch.failed_idx)
        /\ pc = "summary" => batch.attempts = [i \in 1..Len(batch.links) |-> i]

\* a batch of two entries is at its summary, its first entry failed and its
\* second entry was attempted after it
C8_Witness ==
    /\ mode = "batch" /\ pc = "summary"
    /\ Len(batch.links) = 2
    /\ 1 \in batch.failed_idx
    /\ batch.attempts = <<1, 2>>

----------------------------------------------------------------------------
(* C9 *)

\* C9: in every pass the stages that were done were done in the order of
\* StageOrder (each one later in that order than the one done before it, and
\* so each at most once); a commit submission was made only with the fields
\* derived and the torrent built or obtained, and the torrent file lies at
\* its path until the watch-folder move; the torrent was built or obtained
\* only for an album that lies in the destination directory, relocated there
\* by this pass unless the pass was started with an existing album.
C9_StagesInOrder ==
    LET st == item.stages
        done == Range(st)
    IN /\ \A i \in 1..(Len(st) - 1) : Rank[st[i]] < Rank[st[i + 1]]
       /\ "Submit" \in done =>
            /\ {"BuildOrObtainTorrent", "DeriveFields"} \subseteq done
            /\ item.fields
            /\ "WatchFolderMove" \notin done => item.torrent_path \in fs.torrents
       /\ pc = "Submit" => (item.fields /\ "BuildOrObtainTorrent" \in done)
       /\ "BuildOrObtainTorrent" \in done =>
            /\ item.final_path \in (fs.dest \cup fs.dest_nested)
            /\ ~item.use_existing => "Relocate" \in done

\* a single-item pass did every stage, the optional ones included
C9_Witness ==
    /\ mode = "single" /\ pc = "done"
    /\ item.stages = StageOrder

----------------------------------------------------------------------------
(* C10 *)

\* the result of a dry run is a success
DryRunSuccessful(st) == Contains(StSuccess, Lower(st))

\* C10: validate-then-commit in the single-item flow.  The test of a dry
\* run lets the pass go on only when the status of the dry run is a success,
\* and from the test of a dry run whose status is not a success the next
\* step is the source selection (or the end of the process); a pass that made
\* a dry run is at the confirmation, at the commit submission or behind it
\* only with a dry run that passed that test.
C10_ValidateThenCommit ==
    /\ [][ (mode = "single" /\ pc = "DryRunCheck") =>
              IF DryRunSuccessful(item.dry_status)
              THEN pc' \in {"confirm", "exited"}
              ELSE pc' \in {"select", "exited"} /\ item'.commits = 0 ]_vars
    /\ []( (mode = "single" /\ "DryRun" \in Range(item.stages)
              /\ (pc \in {"confirm", "Submit", "WatchFolderMove", "done"}
                    \/ item.commits > 0 \/ "Submit" \in Range(item.stages)))
           => item.dry = "passed" )

\* a dry run was made and its status is not a success
C10_Witness ==
    /\ mode = "single" /\ pc = "DryRunCheck"
    /\ item.dry = "done"
    /\ ~DryRunSuccessful(item.dry_status)

----------------------------------------------------------------------------
(* C11 *)

\* C11: each of the three tests of a submission result's status (dry run,
\* commit in the single-item flow, commit in the batch flow) accepts the
\* result exactly when its status contains "success" in any letter case.
C11_StatusTestsAcceptSuccessInAnyCase ==
    loc.pc = "tested" => (loc.accepted <=> DryRunSuccessful(loc.status))

----------------------------------------------------------------------------
(* C12 *)

\* the stages a pass with an existing album skips
SkippedStages == {"Acquire", "Normalize", "Recompress", "Relocate"}

\* C12: a pass started with an existing destination folder begins at
\* BuildOrObtainTorrent with a folder that lies in the destination; it does
\* none of the stages Acquire, Normalize, Recompress and Relocate; and no
\* step of it changes the download directory or the destination directory or
\* the folder it works on.
C12_ExistingAlbumSkipsToTorrent ==
    /\ []( item.use_existing =>
             /\ mode = "single"
             /\ pc \notin SkippedStages
             /\ Range(item.stages) \cap SkippedStages = {}
             /\ item.final_path \in fs.dest )
    /\ [][ item'.use_existing =>
             /\ fs'.dl = fs.dl
             /\ fs'.dest = fs.dest
             /\ fs'.dest_nested = fs.dest_nested
             /\ IF item.use_existing
                THEN item'.final_path = item.final_path
                ELSE pc = "select" /\ pc' = "BuildOrObtainTorrent"
                     /\ item'.stages = <<>> ]_vars

\* a pass with an existing album is done, from the torrent to the submission
C12_Witness ==
    /\ item.use_existing /\ pc = "done"
    /\ Len(item.stages) >= 4
    /\ Head(item.stages) = "BuildOrObtainTorrent"
    /\ "Submit" \in Range(item.stages)

----------------------------------------------------------------------------
(* C13 *)

\* where a pass is
PassPcs ==
    {"Acquire", "Normalize", "Recompress", "Relocate", "BuildOrObtainTorrent",
     "ExtractMetadata", "DeriveFields", "DryRun", "DryRunCheck", "confirm", "Submit",
     "WatchFolderMove", "mark", "done"}

\* C13: a failure is not fatal.  The process ends only by the interrupt or
\* by the user's "no" to going on; a single-item pass that ends, however it
\* ends, is followed by the source selection unless the process ends in one
\* of these two ways; a batch entry that is counted as failed is followed by
\* the next entry or, after the last one, by the summary, and the summary by
\* the source selection.
C13_FailureIsNotFatal ==
    /\ [](pc = "exited" => mode \in {"interrupted", "declined"})
    /\ [][ /\ (mode = "single" /\ pc \in PassPcs /\ pc' \notin PassPcs)
              => pc' \in {"select", "exited"}
           /\ (mode = "batch" /\ pc \in PassPcs /\ pc' # "exited")
              => IF batch'.failed # batch.failed
                 THEN /\ batch'.failed = batch.failed + 1
                      /\ IF batch.idx < Len(batch.links)
                         THEN pc' = "Acquire" /\ batch'.idx = batch.idx + 1
                         ELSE pc' = "summary"
                 ELSE pc' \in PassPcs \cup {"summary"}
           /\ pc = "summary" => pc' \in {"select", "exited"} ]_vars

\* the process is at the source selection again after a pass that failed
\* between the download and the move: the album is still in the download
\* directory
C13_Witness ==
    /\ pc = "select"
    /\ passes >= 1
    /\ fs.dl # {}

----------------------------------------------------------------------------
(* C20 *)

\* C20: after Relocate the album's files lie directly under the returned
\* path <destination>/<album folder name>, also when the destination had a
\* folder of that name: they are not one level deeper.
C20_RelocatedAlbumIsAtReturnedPath ==
    "Relocate" \in Range(item.stages) =>
        /\ item.final_path \in fs.dest
        /\ item.final_path \notin fs.dest_nested

----------------------------------------------------------------------------
(* C14 *)

\* C14: download_album returns a folder that is among the immediate
\* subfolders of the download directory after the acquisition and was not
\* among them before it; it returns None exactly when there is no such
\* folder.
C14_ReturnsANewFolder ==
    loc.pc = "returned" =>
        LET before == loc.disk0.dirs
            after == loc.disk.dirs
        IN /\ loc.result.kind \in {"folder", "None"}
           /\ loc.result.kind = "folder" =>
                /\ loc.result.name \in after \ before
                /\ loc.result.name \notin before
           /\ loc.result.kind = "None" <=> after \ before = {}

\* the directory had a folder before the call, the tool left that folder and
\* made a new one, and download_album returned the new one
C14_Witness ==
    /\ loc.pc = "returned"
    /\ loc.result.kind = "folder"
    /\ loc.disk0.dirs # {}
    /\ loc.disk0.dirs \subseteq loc.disk.dirs

----------------------------------------------------------------------------
(* C15 *)

\* C15: when the acquisition tool has exited non-zero, download_album has
\* raised the tool's failure: it took no second snapshot, computed no
\* difference, gave no folder to its caller, and ran the tool once.
C15_FailedAcquisitionIsPropagated ==
    (loc.pc # "idle" /\ loc.runs > 0 /\ loc.exit # 0) =>
        /\ loc.pc = "raised"
        /\ loc.result = [kind |-> "CalledProcessError", name |-> 0]
        /\ loc.snapshots = 1
        /\ loc.folders_after = {}
        /\ loc.runs = 1

\* the tool made a new folder and then exited non-zero
C15_Witness ==
    /\ loc.pc = "raised"
    /\ loc.exit # 0
    /\ loc.disk.dirs \ loc.folders_before # {}

----------------------------------------------------------------------------
(* Vocabulary of the statements about flattening *)

\* a folder whose only entry is a directory
NestingArtifact(t, p) == \E c \in listdir(t, p) : listdir(t, p) = {c} /\ isdir(t, p \o <<c>>)

OnlyEntry(t, p) == CHOOSE c \in listdir(t, p) : TRUE

\* the names of the chain that starts at p, and its innermost folder
RECURSIVE Chain(_, _)
Chain(t, p) ==
    IF NestingArtifact(t, p) THEN <<Last(p)>> \o Chain(t, p \o <<OnlyEntry(t, p)>>) ELSE <<Last(p)>>
RECURSIVE Inner(_, _)
Inner(t, p) == IF NestingArtifact(t, p) THEN Inner(t, p \o <<OnlyEntry(t, p)>>) ELSE p

WithDash(a, b) == a \o <<"-">> \o b
WithSuffix(a, k) == a \o <<"_", Digits[k]>>

\* the names a chain can end up with: each join is plain or carries a
\* numeric suffix
RECURSIVE Variants(_)
Variants(chain) ==
    IF Len(chain) = 1
    THEN {chain[1]}
    ELSE LET plain == {WithDash(v, Last(chain)) : v \in Variants(Front(chain))}
         IN plain \cup {WithSuffix(w, k) : w \in plain, k \in 1..Len(Digits)}

\* where the album's content is while the function runs
Holder == IF loc.new_path # NoPath THEN loc.new_path ELSE loc.album_folder

----------------------------------------------------------------------------
(* C16 *)

\* C16: for a chain A/B/C/.. the function returns one folder at A's level
\* whose name is the chain's names joined with "-" (each join possibly with
\* a collision suffix), which directly holds what the innermost folder
\* held; A and every intermediate combined folder are gone: the parent
\* directory has the entries it had, with A replaced by the result.
C16_ChainBecomesOneFolder ==
    loc.pc = "returned" =>
        LET parent_dir == Front(loc.input)
        IN /\ Front(loc.result) = parent_dir
           /\ Last(loc.result) \in Variants(Chain(loc.tree0, loc.input))
           /\ isdir(loc.tree, loc.result)
           /\ Contents(loc.tree, loc.result) = Contents(loc.tree0, Inner(loc.tree0, loc.input))
           /\ listdir(loc.tree, parent_dir)
                = (listdir(loc.tree0, parent_dir) \ {Last(loc.input)}) \cup {Last(loc.result)}

\* A/B/C with a file in C came back as one folder A-B-C
C16_Witness ==
    /\ loc.pc = "returned"
    /\ Chain(loc.tree0, loc.input) = <<<<"A">>, <<"B">>, <<"C">>>>
    /\ loc.result = <<<<"A", "-", "B", "-", "C">>>>
    /\ File(<<<<"A", "-", "B", "-", "C">>, <<"f">>>>) \in loc.tree

----------------------------------------------------------------------------
(* C17 *)

\* C17: every move made by the function goes to a path that did not exist
\* just before it: the combined name when it is free, else the combined
\* name with the smallest numeric suffix that is free.  At every moment the
\* album holds what it held at the start, and every other entry of the
\* parent directory is as it was.
C17_NothingLostOrMerged ==
    /\ [](loc.pc # "idle" =>
            LET parent_dir == Front(loc.input)
            IN /\ Contents(loc.tree, Inner(loc.tree, Holder))
                    = Contents(loc.tree0, Inner(loc.tree0, loc.input))
               /\ \A n \in listdir(loc.tree0, parent_dir) \ {Last(loc.input)} :
                    /\ exists(loc.tree, parent_dir \o <<n>>)
                    /\ isdir(loc.tree, parent_dir \o <<n>>) = isdir(loc.tree0, parent_dir \o <<n>>)
                    /\ Under(loc.tree, parent_dir \o <<n>>) = Under(loc.tree0, parent_dir \o <<n>>))
    /\ [][(loc.pc = "nested" /\ loc'.pc = "moved") =>
            LET plain == Front(loc.album_folder)
                            \o <<WithDash(Last(loc.album_folder), OnlyEntry(loc.tree, loc.album_folder))>>
                numbered(k) == Front(plain) \o <<WithSuffix(Last(plain), k)>>
            IN /\ ~exists(loc.tree, loc'.new_path)
               /\ isdir(loc'.tree, loc'.new_path)
               /\ IF ~exists(loc.tree, plain)
                  THEN loc'.new_path = plain
                  ELSE \E k \in 1..Len(Digits) :
                         /\ loc'.new_path = numbered(k)
                         /\ \A j \in 1..(k - 1) : exists(loc.tree, numbered(j))]_vars

\* A-B and A-B_1 were taken, so A/B went to A-B_2
C17_Witness ==
    /\ loc.pc = "moved"
    /\ loc.new_path = <<<<"A", "-", "B", "_", "2">>>>
    /\ isdir(loc.tree0, <<<<"A", "-", "B">>>>)

----------------------------------------------------------------------------
(* C18 *)

\* C18: the function comes to an end, and the folder it returns exists and
\* is not a nesting artifact: it has no entry, several entries, or one
\* entry that is a file.
C18_TerminatesOnAFlatFolder ==
    /\ <>(loc.pc \in {"returned", "raised"})
    /\ [](loc.pc = "returned" =>
            /\ isdir(loc.tree, loc.result)
            /\ \/ listdir(loc.tree, loc.result) = {}
               \/ Cardinality(listdir(loc.tree, loc.result)) > 1
               \/ \E c \in listdir(loc.tree, loc.result) :
                    /\ listdir(loc.tree, loc.result) = {c}
                    /\ File(loc.result \o <<c>>) \in loc.tree)

\* a chain of two levels was flattened down to a folder with one file
C18_Witness ==
    /\ loc.pc = "returned"
    /\ Len(Chain(loc.tree0, loc.input)) = 3
    /\ listdir(loc.tree, loc.result) = {<<"g">>}

----------------------------------------------------------------------------
(* C19 *)

\* C19: on a folder that is not a nesting artifact the function changes
\* nothing in the directory and returns the path it was given.
C19_NoOpOnAFlatFolder ==
    (loc.pc # "idle" /\ ~NestingArtifact(loc.tree0, loc.input)) =>
        /\ loc.tree = loc.tree0
        /\ loc.pc \in {"loop", "returned"}
        /\ loc.pc = "returned" => loc.result = loc.input

\* a folder with a file and a subfolder came back as it was
C19_Witness ==
    /\ loc.pc = "returned"
    /\ listdir(loc.tree0, loc.input) = {<<"f">>, <<"x">>}
    /\ loc.result = loc.input
    /\ loc.tree = loc.tree0

----------------------------------------------------------------------------
(* C21 *)

\* the table of the size policy: the bound of each bucket in MiB, and its
\* piece size in KiB
Buckets ==
    <<[upto |-> 50, piece |-> 32], [upto |-> 150, piece |-> 64], [upto |-> 350, piece |-> 128],
      [upto |-> 512, piece |-> 256], [upto |-> 1024, piece |-> 512], [upto |-> 2048, piece |-> 1024]>>

Fits(size, i) == size.mib < Buckets[i].upto \/ (size.mib = Buckets[i].upto /\ size.rest = 0)

PieceByTable(size) ==
    IF \E i \in 1..Len(Buckets) : Fits(size, i)
    THEN LET first == CHOOSE i \in 1..Len(Buckets) :
                        Fits(size, i) /\ \A j \in 1..(i - 1) : ~Fits(size, j)
         IN Buckets[first].piece * 1024
    ELSE 2048 * 1024

\* C21: get_piece_size gives every size the piece size of the first bucket
\* whose bound it does not exceed, and 2048 KiB above the last bound;
\* 52,428,800 bytes give 32 KiB and 52,428,801 bytes give 64 KiB.
C21_PieceSizeByInclusiveBuckets ==
    loc.pc = "returned" =>
        /\ loc.p1 = PieceByTable(loc.s1)
        /\ loc.s1 = [mib |-> 0, rest |-> 0] => loc.p1 = 32768
        /\ loc.s1 = [mib |-> 50, rest |-> 0] => loc.p1 = 32768
        /\ loc.s1 = [mib |-> 50, rest |-> 1] => loc.p1 = 65536
        /\ loc.s1 = [mib |-> 3072, rest |-> 0] => loc.p1 = 2097152

\* the two sizes on either side of the first bound
C21_Witness ==
    /\ loc.pc = "returned"
    /\ loc.s1 = [mib |-> 50, rest |-> 0] /\ loc.p1 = 32768
    /\ loc.s2 = [mib |-> 50, rest |-> 1] /\ loc.p2 = 65536

----------------------------------------------------------------------------
(* C22 *)

\* C22: for sizes s1 < s2 the piece size of s1 is at most that of s2.
C22_PieceSizeIsMonotone ==
    (loc.pc = "returned" /\ SizeLess(loc.s1, loc.s2)) => loc.p1 <= loc.p2

\* a smaller size with a smaller piece size, in neighbouring buckets
C22_Witness ==
    /\ loc.pc = "returned"
    /\ loc.s1 = [mib |-> 350, rest |-> 0]
    /\ loc.s2 = [mib |-> 350, rest |-> 1]
    /\ loc.p1 < loc.p2

----------------------------------------------------------------------------
(* C23 *)

\* the bytes of all files of the folder, whatever their place in it
RECURSIVE TotalBytes(_)
TotalBytes(files) ==
    IF files = {} THEN [mib |-> 0, rest |-> 0]
    ELSE LET f == CHOOSE x \in files : TRUE
             others == TotalBytes(files \ {f})
             rest == f.size.rest + others.rest
         IN [mib |-> f.size.mib + others.mib + (rest \div 1048576), rest |-> rest % 1048576]

\* C23: create_torrent returns <output_dir>/<folder name>.torrent; what is
\* at that path afterwards is the descriptor just made, not what was there
\* before; the descriptor is private, has the source tag "RED", exactly one
\* announce URL, and the piece size of the summed sizes of all files of the
\* folder, those in subfolders included.
C23_DescriptorAtCanonicalPath ==
    loc.pc = "returned" =>
        /\ loc.result = <<"output_dir", loc.album_name \o <<".torrent">>>>
        /\ loc.out.exists
        /\ loc.out.at_path.kind = "descriptor"
        /\ loc.out.at_path.private
        /\ loc.out.at_path.source = "RED"
        /\ loc.out.at_path.trackers = <<loc.announce_url>>
        /\ loc.out.at_path.piece_size = PieceByTable(TotalBytes(loc.files))

\* two files of 25 MiB and 25 MiB + 1 byte, one of them in a subfolder,
\* together just over the first bound; an old descriptor was replaced
C23_Witness ==
    /\ loc.pc = "returned"
    /\ loc.files = {[at |-> "top", size |-> [mib |-> 25, rest |-> 0]],
                    [at |-> "subfolder", size |-> [mib |-> 25, rest |-> 1]]}
    /\ loc.out.at_path.piece_size = 65536
    /\ loc.out0.at_path.kind = "old file"
    /\ loc.out.at_path.kind = "descriptor"

----------------------------------------------------------------------------
(* C24 *)

\* the title, lower-cased, has the words as a substring
Has(album_name, words) == Contains(words, lower(album_name))

\* the keywords in their order of priority, each with the name of its type
KeywordTypes ==
    <<[words |-> <<"r", "e", "m", "i", "x">>, type |-> "Remix"],
      [words |-> <<"l", "i", "v", "e">>, type |-> "Live album"],
      [words |-> <<"s", "o", "u", "n", "d", "t", "r", "a", "c", "k">>, type |-> "Soundtrack"],
      [words |-> <<"o", "s", "t">>, type |-> "Soundtrack"],
      [words |-> <<"c", "o", "m", "p", "i", "l", "a", "t", "i", "o", "n">>, type |-> "Compilation"],
      [words |-> <<"b", "e", "s", "t", " ", "o", "f">>, type |-> "Compilation"],
      [words |-> <<"g", "r", "e", "a", "t", "e", "s", "t", " ", "h", "i", "t", "s">>, type |-> "Compilation"]>>

\* C24: the detected release type is that of the first keyword of the
\* priority list found in the title, whatever the track count; without a
\* keyword it is Single up to 3 tracks, EP up to 6, Album above, and Album
\* when the tracks cannot be counted.
C24_ReleaseTypeByPriority ==
    loc.pc \in {"asking", "fields made"} =>
        LET found == {i \in 1..Len(KeywordTypes) : Has(loc.album_name, KeywordTypes[i].words)}
            type == RELEASE_TYPES[loc.default]
        IN IF found # {}
           THEN type = KeywordTypes[CHOOSE i \in found : \A j \in found : i <= j].type
           ELSE IF loc.track_count < 0 THEN type = "Album"
           ELSE IF loc.track_count <= 3 THEN type = "Single"
           ELSE IF loc.track_count <= 6 THEN type = "EP"
           ELSE type = "Album"

\* "Live at Wembley" with two tracks is a live album, not a single
C24_Witness ==
    /\ loc.pc = "fields made"
    /\ loc.album_name = <<"L", "i", "v", "e", " ", "a", "t", " ", "W", "e", "m", "b", "l", "e", "y">>
    /\ loc.track_count = 2
    /\ RELEASE_TYPES[loc.default] = "Live album"

----------------------------------------------------------------------------
(* C25 *)

\* C25: the release type of the fields, detected or chosen by the user, is
\* a code of the table; an entry that is no number, or a number that is not
\* in the table, is followed by the same question and sets no release type.
C25_ReleaseTypeIsOfTheTable ==
    /\ [](loc.pc = "fields made" =>
            loc.releasetype \in {1, 3, 5, 6, 7, 9, 11, 13, 14, 15, 16, 17, 18, 19, 21})
    /\ [][(loc.pc = "asking" /\ loc' # loc) =>
            LET text == IF loc'.entry = <<>> THEN Decimal(loc.default) ELSE loc'.entry
                number == ParseInt(text)
            IN IF number.ok /\ number.value \in {1, 3, 5, 6, 7, 9, 11, 13, 14, 15, 16, 17, 18, 19, 21}
               THEN loc'.pc = "fields made" /\ loc'.releasetype = number.value
               ELSE /\ loc'.pc = "asking"
                    /\ loc'.releasetype = loc.releasetype
                    /\ loc'.default = loc.default]_vars

\* the user typed a number that is not in the table, then a valid one
C25_Witness ==
    /\ loc.pc = "fields made"
    /\ ~loc.auto
    /\ loc.asks = 2
    /\ loc.releasetype = 21

----------------------------------------------------------------------------
(* C26 *)

\* the sample rates in kHz, without a trailing .0
KiloHertz ==
    [rate \in {11025, 22050, 44100, 48000, 88200, 96000, 176400, 192000} |->
        CASE rate = 11025 -> <<"1", "1", ".", "0", "2", "5">>
          [] rate = 22050 -> <<"2", "2", ".", "0", "5">>
          [] rate = 44100 -> <<"4", "4", ".", "1">>
          [] rate = 48000 -> <<"4", "8">>
          [] rate = 88200 -> <<"8", "8", ".", "2">>
          [] rate = 96000 -> <<"9", "6">>
          [] rate = 176400 -> <<"1", "7", "6", ".", "4">>
          [] rate = 192000 -> <<"1", "9", "2">>]
BitsText == [bits \in {16, 24} |-> IF bits = 16 THEN <<"1", "6">> ELSE <<"2", "4">>]
RipLabel == <<"Q", "o", "b", "u", "z", " ", "R", "i", "p">>

Supplied(url) == url.given /\ url.text # <<>>

\* "<bitDepth>/<kHz> <rip label>"
DescriptionHead == BitsText[loc.bits_per_sample] \o <<"/">> \o KiloHertz[loc.sample_rate] \o <<" ">> \o RipLabel

----------------------------------------------------------------------------
(* C27 *)

\* C27: for a folder without a FLAC file the item does not fail: the
\* extraction gives no metadata, the flow goes on with bit depth 16, sample
\* rate 44100 and empty texts, and the fields made from the defaults
\* alone carry these values to the submission.
C27_AbsentMetadataGetsDefaults ==
    (loc.pc # "idle" /\ loc.flacs = 0) =>
        /\ loc.pc # "failed"
        /\ loc.pc = "metadata read" => ~loc.metadata.present
        /\ loc.pc \in {"DeriveFields", "Submit", "submitted"} =>
             /\ loc.metadata.present
             /\ loc.metadata.bits_per_sample = 16
             /\ loc.metadata.sample_rate = 44100
             /\ \A tag \in {"artist", "album", "year", "label", "genre"} : loc.metadata[tag] = <<>>
        /\ (loc.pc \in {"Submit", "submitted"} /\ ~loc.review) =>
             /\ loc.fields.artists = <<>> /\ loc.fields.title = <<>> /\ loc.fields.year = <<>>
             /\ loc.fields.remaster_record_label = <<>> /\ loc.fields.tags = <<>>
             /\ loc.fields.bitrate = "Lossless"
             /\ SubSeq(loc.fields.release_desc, 1, 7) = <<"1", "6", "/", "4", "4", ".", "1">>

\* a batch entry without FLAC files was submitted with the defaults
C27_Witness ==
    /\ loc.pc = "submitted"
    /\ loc.flow = "batch"
    /\ loc.flacs = 0
    /\ ~loc.review
    /\ loc.fields.bitrate = "Lossless"

----------------------------------------------------------------------------
(* C28 *)

\* an entry that is no menu letter and no number of a listed album
InvalidSelection(entry, n) ==
    /\ entry # <<>>
    /\ entry \notin {<<"p">>, <<"P">>, <<"b">>, <<"B">>}
    /\ ~\E k \in 1..n : ParseInt(entry) = [ok |-> TRUE, value |-> k]

\* C28: after an invalid entry at the selection prompt, with albums listed,
\* the program is at the selection prompt again: no existing album is
\* selected, and no URL is asked for and no download started.
C28_InvalidSelectionIsAskedAgain ==
    (loc.pc # "idle" /\ loc.entered /\ loc.albums > 0 /\ InvalidSelection(loc.entry, loc.albums)) =>
        /\ loc.pc = "Selection"
        /\ loc.album = 0
        /\ loc.url = <<>>

----------------------------------------------------------------------------
(* C29 *)

----------------------------------------------------------------------------
(* C30 *)

\* C30: the form data has an optional field (edition year, edition title,
\* record label, catalogue number, tags, image, album description, release
\* description, group id) exactly when the fields give it a non-empty value,
\* and then with that value; its dry-run flag is "1" exactly when a dry run
\* was asked for.
C30_OptionalFieldsSentIffNonEmpty ==
    loc.pc \in {"data made", "returned", "raised"} =>
        /\ \A key \in {"remaster_year", "remaster_title", "remaster_record_label",
                       "remaster_catalogue_number", "tags", "image", "album_desc",
                       "release_desc", "groupid"} :
             /\ key \in DOMAIN loc.data <=> (key \in DOMAIN loc.fields /\ loc.fields[key] # <<>>)
             /\ key \in DOMAIN loc.data => loc.data[key] = loc.fields[key]
        /\ loc.data["dryrun"] \in {<<"0">>, <<"1">>}
        /\ loc.data["dryrun"] = <<"1">> <=> loc.dry_run

\* a dry run with tags but without image: the tags are sent, the image is not
C30_Witness ==
    /\ loc.pc = "returned"
    /\ loc.dry_run
    /\ loc.fields["tags"] # <<>> /\ "tags" \in DOMAIN loc.data
    /\ loc.fields["image"] = <<>> /\ "image" \notin DOMAIN loc.data
    /\ "groupid" \notin DOMAIN loc.fields

----------------------------------------------------------------------------
(* C31 *)

Texts(lines) == [i \in 1..Len(lines) |-> Text(lines[i])]

\* C31: after the save the file reads as the lines it had, with their
\* texts unchanged and in their order, followed by the separator comment
\* and the saved links, one per line (and a blank line before the comment
\* when the file ended with a line break); the lines it had are active,
\* disabled or blank as before.
C31_SaveOnlyAppends ==
    qpc \in {"saved", "read"} =>
        LET old == Texts(ReadLines(file_prev))
            new == Texts(ReadLines(file))
            added == <<<<"#", " ", "Parsed from batch parse file">>>> \o links
        IN /\ Len(new) >= Len(old)
           /\ SubSeq(new, 1, Len(old)) = old
           /\ SubSeq(new, Len(old) + 1, Len(new)) \in {added, <<<<>>>> \o added}
           /\ \A i \in 1..Len(old) :
                /\ IsActive(new[i]) <=> IsActive(old[i])
                /\ IsDisabled(new[i]) <=> IsDisabled(old[i])

\* links saved to a file whose last line, an active entry, had no line break
C31_Witness ==
    /\ qpc = "read"
    /\ file_prev # <<>>
    /\ file_prev[Len(file_prev)] = "a"
    /\ Len(links) = 2
    /\ Len(links_prev) >= 3

----------------------------------------------------------------------------
(* C32 *)

\* the target of an anchor as an absolute URL on the page's scheme and host
Resolved(href) == IF href[1] = "https://www.qobuz.com" THEN href ELSE <<"https://www.qobuz.com">> \o href

\* the album links of all anchors of all containers, in document order
RECURSIVE AlbumTargets(_)
AlbumTargets(containers) ==
    IF containers = <<>> THEN <<>>
    ELSE LET c == Head(containers)
             albums == {i \in 1..Len(c) : \E j \in 1..Len(c[i]) : c[i][j] = "/album/"}
             RECURSIVE InOrder(_)
             InOrder(i) == IF i > Len(c) THEN <<>>
                           ELSE (IF i \in albums THEN <<Resolved(c[i])>> ELSE <<>>) \o InOrder(i + 1)
         IN InOrder(1) \o AlbumTargets(Tail(containers))

\* the first occurrences of a list, in order
FirstSeen(list) ==
    LET keep == {i \in 1..Len(list) : \A j \in 1..(i - 1) : list[j] # list[i]}
        RECURSIVE Kept(_)
        Kept(i) == IF i > Len(list) THEN <<>>
                   ELSE (IF i \in keep THEN <<list[i]>> ELSE <<>>) \o Kept(i + 1)
    IN Kept(1)

\* C32: the links returned for a page that was fetched are the album links
\* of all anchors of all product containers, as absolute URLs on the page's
\* scheme and host, each once, in first-seen order; the list joined over
\* the pages has each link once, in first-seen order.
C32_EveryAlbumLinkOfEveryContainer ==
    /\ (loc.pc \in {"returned", "combined"} /\ loc.fetched)
          => loc.album_links = FirstSeen(AlbumTargets(loc.page))
    /\ loc.pc = "combined"
          => loc.all_album_links = FirstSeen(loc.earlier \o loc.album_links)

----------------------------------------------------------------------------
(* C33 *)

\* C33: at the summary of a batch the two counts add up to the number of
\* entries of the batch list, every entry is in exactly one of the two
\* counts, and the entries counted as successful are entries whose commit
\* submission returned the success status and whose link the marking has
\* left inactive in the queue file: of a batch of different entries read
\* from the queue file, as many entries as were counted successful are no
\* longer active.
C33_BatchAccountingIsExact ==
    []((mode = "batch" /\ pc = "summary") =>
        LET n == Len(batch.links)
            active == read_batch_links(file)
            distinct == \A i, j \in 1..n : batch.links[i] = batch.links[j] => i = j
        IN /\ batch.successful + batch.failed = n
           /\ \A i \in 1..n : (i \in batch.succ_idx) # (i \in batch.failed_idx)
           /\ batch.successful = Cardinality(batch.succ_idx)
           /\ batch.failed = Cardinality(batch.failed_idx)
           /\ \A i \in batch.succ_idx :
                /\ batch.answers[i] = "success"
                /\ \A k \in 1..Len(active) : active[k] # batch.links[i]
           /\ (batch.source = "file" /\ distinct) =>
                Len(read_batch_links(batch.file_start)) - Len(active) = batch.successful)

\* a batch of two different entries read from the queue file is at its
\* summary with one entry counted as successful and one as failed
C33_Witness ==
    /\ mode = "batch" /\ pc = "summary" /\ batch.source = "file"
    /\ Len(batch.links) = 2
    /\ batch.links[1] # batch.links[2]
    /\ batch.successful = 1
    /\ batch.failed = 1
    /\ Len(read_batch_links(file)) = Len(read_batch_links(batch.file_start)) - 1

----------------------------------------------------------------------------
(* C34 *)

\* C34: the torrent of a commit submission describes the album folder as it
\* is when the submission is made: its files are the files of the folder and
\* its piece size is the one of the table for their total size, also for a
\* torrent that an earlier pass left in the output directory.
C34_SubmittedTorrentDescribesFolder ==
    loc.pc \in {"released", "pass over"} /\ loc.submitted.piece_size # 0 =>
        /\ loc.submitted.files = loc.files
        /\ loc.submitted.piece_size = get_piece_size(SizeOfFiles(loc.files))

----------------------------------------------------------------------------
(* C35 *)

\* C35: the fields of every submission have an artist, a title and a year
\* that are not empty, whether the fields were reviewed at the prompts or
\* made from the defaults alone.
C35_RequiredFieldsNeverEmpty ==
    (loc.pc = "submitted" /\ loc.submitted) =>
        /\ loc.fields.artists # <<>>
        /\ loc.fields.title # <<>>
        /\ loc.fields.year # <<>>

----------------------------------------------------------------------------
(* C36 *)

\* C36: after the links of pages taken from the batch parse file were saved
\* or handed on for processing, every page that gave links is no longer an
\* active entry of the batch parse file, be it one page or several, and the
\* pages that gave no link are still active; after a cancel the batch parse
\* file is as it was.
C36_ParsedPagesAreMarked ==
    (loc.pc = "returned" /\ loc.from_file) =>
        LET active == read_batch_links(loc.bytes)
            gave == {loc.processed_page_urls[k] : k \in 1..Len(loc.processed_page_urls)}
        IN /\ loc.choice \in {"S", ""} =>
                \A i \in 1..Len(loc.page_urls) :
                    (loc.page_urls[i] \in gave) # (\E k \in 1..Len(active) : active[k] = loc.page_urls[i])
           /\ loc.choice \in {"C", "none"} => loc.bytes = loc.bytes0

----------------------------------------------------------------------------
(* C37 *)

\* the pass makes its commit submissions without a question
Automatic == (mode = "batch" /\ batch.auto) \/ (mode = "single" /\ item.auto)

\* the user answers the question before the commit submission with no
DeclineStep ==
    \/ mode = "single" /\ pc = "confirm" /\ pc' = "done"
    \/ mode = "batch" /\ pc = "DeriveFields" /\ ~batch.auto
         /\ batch'.failed_idx = batch.failed_idx \cup {batch.idx}

\* C37: an item has at most one commit submission in a pass; unless the
\* pass is automatic, the submission is made only after the user confirmed
\* it; and the step in which the user declines sends no submission, marks
\* nothing in the queue file and moves no torrent: the pass of the item is
\* over without a commit.
C37_OneCommitOnlyAfterConfirmation ==
    /\ [](item.commits <= 1)
    /\ []((item.commits = 1 /\ ~Automatic) => item.confirmed)
    /\ [][(pc' # "exited" /\ item'.commits > item.commits) =>
              (pc = "Submit" /\ item.commits = 0 /\ (Automatic \/ item.confirmed))]_vars
    /\ [][DeclineStep =>
              /\ item.commits = 0 /\ item'.commits = 0
              /\ file' = file
              /\ fs' = fs
              /\ pc' \notin {"Submit", "WatchFolderMove", "mark"}
              /\ mode = "batch" => batch'.answers[batch.idx] = "none"]_vars

\* a single pass that is not automatic has made its commit submission after
\* the user confirmed it
C37_Witness ==
    /\ mode = "single" /\ pc = "done"
    /\ ~item.auto
    /\ item.confirmed
    /\ item.commits = 1

====
